---- MODULE Spec2Model ----
(***************************************************************************)
(* Network connection orchestration of the kiosk player                    *)
(* (src/src/main/networkManager.js) as a state machine.                    *)
(*                                                                         *)
(* JavaScript runs one synchronous segment at a time: an action of this    *)
(* module is the code that runs between two awaits of one async function   *)
(* chain.  A command handed to executeCommand is "issued" in the segment   *)
(* that calls it and "returns" in the action that resumes after the await. *)
(***************************************************************************)
EXTENDS Bags, FiniteSets, Integers, Sequences, TLC

(* ---------------- bounds of the model ---------------- *)

\* number of connectToNetwork calls made one after another in one run
MaxCalls == 2

\* calls of checkEthernetConnectionInterval the model follows
MaxStarts == 2

\* interval callbacks the model follows
MaxTicks == 2

(* ---------------- program constants ---------------- *)

\* MaxStateAttempts with the loop test written attempts <= 75
MaxStateAttempts_OneMore == 75 + 1

\* networkManager.js:243  while (attempts < 75)
MaxStateAttempts == 75

\* networkManager.js:292  while (attempts < 20)
\* the probe loop giving up one attempt early
MaxServerAttempts_OneLess == 20 - 1

MaxServerAttempts == 20

\* JavaScript null and undefined, and the absent password / options
NULL == "null"

UNDEF == "undefined"

PSK == "802-11-wireless-security.psk"

ExceededMsg == "Exceeded maximum attempts. Operation failed."

RegressedMsg == "Operation went from activating to null. Most likely wrong password"

DeactivatingMsg == "Connection state deactivating"

(* ---------------- texts and String.prototype.includes ---------------- *)

Texts ==
    {"", "activated", "activating", "deactivated", "deactivating", "unknown", "WPA", "WPA2", "WEP", "wpa2", "successfully added", "Connection successfully added", "Error: add failed", "Connection successfully activated", "Error: activation failed", "0", "1", "secret123"}

Chars(t) ==
    CASE t = "" -> <<>>
      [] t = "activated" -> <<"a", "c", "t", "i", "v", "a", "t", "e", "d">>
      [] t = "activating" -> <<"a", "c", "t", "i", "v", "a", "t", "i", "n", "g">>
      [] t = "deactivated" -> <<"d", "e", "a", "c", "t", "i", "v", "a", "t", "e", "d">>
      [] t = "deactivating" -> <<"d", "e", "a", "c", "t", "i", "v", "a", "t", "i", "n", "g">>
      [] t = "unknown" -> <<"u", "n", "k", "n", "o", "w", "n">>
      [] t = "WPA" -> <<"W", "P", "A">>
      [] t = "WPA2" -> <<"W", "P", "A", "2">>
      [] t = "WEP" -> <<"W", "E", "P">>
      [] t = "wpa2" -> <<"w", "p", "a", "2">>
      [] t = "successfully added" -> <<"s", "u", "c", "c", "e", "s", "s", "f", "u", "l", "l", "y", " ", "a", "d", "d", "e", "d">>
      [] t = "Connection successfully added" -> <<"C", "o", "n", "n", "e", "c", "t", "i", "o", "n", " ", "s", "u", "c", "c", "e", "s", "s", "f", "u", "l", "l", "y", " ", "a", "d", "d", "e", "d">>
      [] t = "Error: add failed" -> <<"E", "r", "r", "o", "r", ":", " ", "a", "d", "d", " ", "f", "a", "i", "l", "e", "d">>
      [] t = "Connection successfully activated" -> <<"C", "o", "n", "n", "e", "c", "t", "i", "o", "n", " ", "s", "u", "c", "c", "e", "s", "s", "f", "u", "l", "l", "y", " ", "a", "c", "t", "i", "v", "a", "t", "e", "d">>
      [] t = "Error: activation failed" -> <<"E", "r", "r", "o", "r", ":", " ", "a", "c", "t", "i", "v", "a", "t", "i", "o", "n", " ", "f", "a", "i", "l", "e", "d">>
      [] t = "0" -> <<"0">>
      [] t = "1" -> <<"1">>
      [] t = "secret123" -> <<"s", "e", "c", "r", "e", "t", "1", "2", "3">>

\* s.includes(sub) on character sequences: sub occurs as a contiguous slice
IncludesSeq(s, sub) ==
    \E i \in 1..(Len(s) - Len(sub) + 1) :
        \A j \in 1..Len(sub) : s[i + j - 1] = sub[j]

\* text.includes(needle); null and undefined have no includes, the callers
\* below only evaluate it behind "success &&", where stdout is a string
Includes(text, needle) ==
    /\ text \in Texts
    /\ IncludesSeq(Chars(text), Chars(needle))

\* JavaScript truthiness of a string-or-undefined value such as the password
TruthyStr(v) == v \notin {NULL, UNDEF, ""}

(* ---------------- CommandResult (utils.js executeCommand) -------------- *)

\* the object executeCommand returns when execAsync resolves: no error key
OkResult(type, out) ==
    [js |-> "object", type |-> type, success |-> TRUE,
     stdout |-> out, stderr |-> "", error |-> UNDEF]

\* the catch block leaving the error out
FailResult_NoError(type) ==
    [js |-> "object", type |-> type, success |-> FALSE,
     stdout |-> NULL, stderr |-> NULL, error |-> NULL]

\* the object executeCommand returns from its catch block
FailResult(type) ==
    [js |-> "object", type |-> type, success |-> FALSE,
     stdout |-> NULL, stderr |-> NULL, error |-> "Error"]

\* the literal false (waitForActiveConnection line 255); reading .success or
\* .stdout of it yields undefined, which is falsy
JsFalse ==
    [js |-> "false", type |-> UNDEF, success |-> FALSE,
     stdout |-> UNDEF, stderr |-> UNDEF, error |-> UNDEF]

\* the literal true; it has no .success either
JsTrue ==
    [js |-> "true", type |-> UNDEF, success |-> FALSE,
     stdout |-> UNDEF, stderr |-> UNDEF, error |-> UNDEF]

\* a boolean as a value a call returns
JsBool(b) == IF b THEN JsTrue ELSE JsFalse

\* what a function that ends without a return statement returns
JsUndefined ==
    [js |-> "undefined", type |-> UNDEF, success |-> FALSE,
     stdout |-> UNDEF, stderr |-> UNDEF, error |-> UNDEF]

\* line 389: { success: false, error: "No active network connection" }
NoConnection ==
    [js |-> "object", type |-> UNDEF, success |-> FALSE,
     stdout |-> UNDEF, stderr |-> UNDEF, error |-> "No active network connection"]

\* line 379: { connectionType: "Ethernet", ...ethernetResult }
EthernetValue(v) ==
    [connectionType |-> "Ethernet", js |-> "object", type |-> v.type,
     success |-> v.success, stdout |-> v.stdout, stderr |-> v.stderr, error |-> v.error]

\* line 386: { connectionType: "Wi-Fi", connectionName: connectionName.stdout, ...wifiResult }
WifiValue(v, name) ==
    [connectionType |-> "Wi-Fi", connectionName |-> name, js |-> "object", type |-> v.type,
     success |-> v.success, stdout |-> v.stdout, stderr |-> v.stderr, error |-> v.error]

\* no value yet
NoResult ==
    [js |-> "none", type |-> UNDEF, success |-> FALSE,
     stdout |-> UNDEF, stderr |-> UNDEF, error |-> UNDEF]

\* every outcome executeCommand can have for a command with the given type
\* whose standard output, when it runs, is one of outs
ExecOutcomes(type, outs) ==
    {OkResult(type, o) : o \in outs} \cup {FailResult(type)}

\* IsOne comparing the text with the number 1, which no text equals
IsOne_Number(r) == r.success /\ r.stdout \in {}

\* serverConnectionResult.success && stdout.toString() === "1"
IsOne(r) == r.success /\ r.stdout = "1"

(* ---------------- inputs ---------------- *)

SSIDs == {"Home", "OldNet"}

\* data.password: a password, the empty string, or no password key
Passwords == {"secret123", "", UNDEF}

\* data.security: as scanned (nmcli SECURITY column)
Securities == {"WPA2", "WEP"}

\* a request as connectToNetwork reads it; hidden is !!data.options.hidden
Requests ==
    [ssid : SSIDs, password : Passwords, security : Securities, hidden : BOOLEAN]

NoRequest == [ssid |-> NULL, password |-> UNDEF, security |-> UNDEF, hidden |-> FALSE]

\* texts nmcli can print for GENERAL.STATE (NetworkManager's active
\* connection states), "unknown" included
StateTexts == {"activated", "activating", "deactivated", "deactivating", "unknown"}

\* texts of "nmcli connection add" / "nmcli device wifi connect"
AddTexts == {"Connection successfully added", "Error: add failed"}

\* texts of "nmcli conn up"
UpTexts == {"Connection successfully activated", "Error: activation failed"}

\* texts of the probe: curl ... && echo 1 || echo 0
ProbeTexts == {"0", "1"}

(* ---------------- state ---------------- *)

VARIABLES
    lastConnectionSSID,   \* networkManager.js:7, module-level slot
    pc,                   \* where the running call chain is suspended
    data,                 \* argument of the running connectToNetwork
    path,                 \* connect function the running call dispatched to
    waitCaller,           \* who awaits waitForActiveConnection
    attempts,             \* waitForActiveConnection: attempts
    lastConnectionState,  \* waitForActiveConnection: lastConnectionState
    connectionState,      \* waitForActiveConnection: connectionState
    activeConnection,     \* resolveNetworkConnection: activeConnection
    probeCaller,          \* who awaits attemptServerConnection
    serverAttempts,       \* attemptServerConnection: attempts
    connection,           \* attemptServerConnection: connection
    retval,               \* value the last finished top-level call returned
    inflight,             \* delete commands issued without await, not yet returned
    trace,                \* notifications and commands of the running connectToNetwork, in order
    observed,             \* what the last state query of the running wait returned, as returned
    sawActivating,        \* an earlier state query of the running wait returned an activating text
    queries,              \* state queries issued by the running wait
    sleeps,               \* 500 ms sleeps started by the running wait
    probes,               \* probes issued by the running attemptServerConnection
    probed,               \* what the last probe returned, kept until the next call starts
    onlyZeros,            \* every probe that did not end the running attemptServerConnection returned "0"
    atStart,              \* lastConnectionSSID and inflight count when the running connectToNetwork began
    calls,                \* top-level calls started so far
    op,                   \* the exported function the running top-level call entered
    locals,               \* local constants of the running deleteConnectionBySSID, resetAllConnections, addDNS or checkNetworkConnection
    ethernetInterval,     \* networkManager.js:8, module-level timer handle
    timers,               \* the interval timers setInterval created, in order, each "active" or "cleared"
    ticks,                \* interval callbacks that have started and not finished
    emitted,              \* "ethernet_status" notifications emitted, per timer
    received,             \* what the listener of line 773 sent to the renderer
    fired,                \* interval callbacks started so far
    profiles,             \* the Wi-Fi profiles the calls created that still exist, where a specification follows them
    suspended,            \* the state of a second connectToNetwork caller while the other one runs a segment
    networkStatusInterval,\* bleManager.js:27, module-level timer handle
    statusTimers,         \* the interval timers bleManager's setInterval created, in order, each "active" or "cleared"
    statusFired,          \* ticks of the status timers so far
    statusTicks,          \* callbacks of the status timers awaiting checkNetworkConnection, by timer
    statusSent            \* SEND_NETWORK_STATUS messages sent over BLE

vars ==
    <<lastConnectionSSID, pc, data, path, waitCaller, attempts, lastConnectionState,
      connectionState, activeConnection, probeCaller, serverAttempts, connection,
      retval, inflight, profiles, trace, observed, sawActivating, queries, sleeps, probes,
      probed, onlyZeros, atStart, calls, op, locals, ethernetInterval, timers, ticks,
      emitted, received, fired, suspended, networkStatusInterval, statusTimers,
      statusFired, statusTicks, statusSent>>

waitVars == <<attempts, lastConnectionState, connectionState, observed, sawActivating, queries, sleeps>>

probeVars == <<serverAttempts, connection, probes, probed, onlyZeros>>

callVars == <<data, path, atStart, calls>>

watchVars == <<ethernetInterval, timers, ticks, emitted, received, fired>>

bleVars == <<networkStatusInterval, statusTimers, statusFired, statusTicks, statusSent>>

\* the values the handle of line 8 takes: undefined after loading, the
\* Timeout object setInterval returned for the t-th timer, null after line 414
UndefHandle == [js |-> "undefined", id |-> 0]

NullHandle == [js |-> "null", id |-> 0]

TimerHandle(t) == [js |-> "object", id |-> t]

\* a call that has no local constants the model follows
NoLocals == [of |-> "none"]

Ev(kind, arg) == [ev |-> kind, arg |-> arg]

\* the trace entry for a command of the running call that returned r
Returned(what, r) == Ev(what \o (IF r.success THEN "_ok" ELSE "_failed"), r.type)

InflightCount == inflight["Home"] + inflight["OldNet"]

\* the profiles NetworkManager holds are outside the program; a specification
\* that follows them starts from Followed, the others from NotFollowed
NotFollowed == [on |-> FALSE, existing |-> {}]

Followed == [on |-> TRUE, existing |-> {}]

\* an add / connect command for s the code takes as successful has left a profile
Created(prof, s) == IF prof.on THEN [prof EXCEPT !.existing = @ \cup {s}] ELSE prof

\* a delete command for s has returned: the profile is gone if it succeeded
Deleted(prof, ok, s) == IF prof.on /\ ok THEN [prof EXCEPT !.existing = @ \ {s}] ELSE prof

\* what a caller of connectToNetwork holds between two segments: the position
\* and the local variables of its call, and what the model notes of the call
IdleCall ==
    [pc |-> "idle", data |-> NoRequest, path |-> "none", waitCaller |-> "none",
     attempts |-> 0, lastConnectionState |-> NULL, connectionState |-> NoResult,
     activeConnection |-> NoResult, probeCaller |-> "none", serverAttempts |-> 0,
     connection |-> NoResult, retval |-> NoResult, trace |-> <<>>, observed |-> NoResult,
     sawActivating |-> FALSE, queries |-> 0, sleeps |-> 0, probes |-> 0,
     probed |-> NoResult, onlyZeros |-> TRUE,
     atStart |-> [last |-> UNDEF, inflight |-> 0], op |-> "none", locals |-> NoLocals]

\* the watch before checkEthernetConnectionInterval is called
FreshWatch == [handle |-> UndefHandle, timers |-> <<>>, fired |-> 0]

InitState(last, loc, prof, made, pending, watch) ==
    /\ lastConnectionSSID = last
    /\ pc = "idle"
    /\ data = NoRequest
    /\ path = "none"
    /\ waitCaller = "none"
    /\ attempts = 0
    /\ lastConnectionState = NULL
    /\ connectionState = NoResult
    /\ activeConnection = NoResult
    /\ probeCaller = "none"
    /\ serverAttempts = 0
    /\ connection = NoResult
    /\ retval = NoResult
    /\ inflight = pending
    /\ trace = <<>>
    /\ observed = NoResult
    /\ sawActivating = FALSE
    /\ queries = 0
    /\ sleeps = 0
    /\ probes = 0
    /\ probed = NoResult
    /\ onlyZeros = TRUE
    /\ atStart = [last |-> UNDEF, inflight |-> 0]
    /\ calls = made
    /\ op = "none"
    /\ locals = loc
    /\ ethernetInterval = watch.handle
    /\ timers = watch.timers
    /\ ticks = EmptyBag
    /\ emitted = [t \in 1..MaxStarts |-> 0]
    /\ received = <<>>
    /\ fired = watch.fired
    /\ profiles = prof
    /\ suspended = IdleCall
    /\ networkStatusInterval = UndefHandle
    /\ statusTimers = <<>>
    /\ statusFired = 0
    /\ statusTicks = EmptyBag
    /\ statusSent = <<>>

\* a series of calls made while the watch has not been started
InitSeries(last, loc, prof, made, pending) ==
    InitState(last, loc, prof, made, pending, FreshWatch)

\* a process in which no call has been made yet
InitFrom(last, loc, prof) == InitSeries(last, loc, prof, 0, [s \in SSIDs |-> 0])

\* no call is in progress, so no call has locals
InitWith(last) == InitFrom(last, NoLocals, NotFollowed)

\* the state after the module is loaded: line 7 leaves the slot undefined
Init == InitWith(UNDEF)

\* the module at rest with any value the slot can hold: undefined after
\* loading, an SSID after line 108, null after line 313
InitOps == \E last \in SSIDs \cup {NULL, UNDEF} : InitWith(last)

(* ---------------- connectToNetwork (networkManager.js:94-123) ---------- *)

\* HasPrevious with the test of line 104 turned around
HasPrevious_Never(last) == last \in {}

\* line 104: lastConnectionSSID != null (loose: undefined is == null)
HasPrevious(last) == last \notin {NULL, UNDEF}

\* DispatchPath with the WPA test placed before the hidden test
DispatchPath_WpaFirst(d) ==
    LET security == IF d.security = UNDEF THEN "" ELSE d.security
    IN  IF Includes(security, "WPA") /\ TruthyStr(d.password) THEN "wpa"
        ELSE IF d.hidden THEN "hidden"
        ELSE "open"

\* line 97 and lines 110-119: which connect function the request goes to
DispatchPath(d) ==
    LET security == IF d.security = UNDEF THEN "" ELSE d.security
    IN  IF d.hidden THEN "hidden"
        ELSE IF Includes(security, "WPA") /\ TruthyStr(d.password) THEN "wpa"
        ELSE "open"

\* line 108: the value stored in lastConnectionSSID
RecordedSSID(d) == d.ssid

\* FirstSegment with the notification moved behind the delete command
FirstSegment_EmitLast(last) ==
    (IF HasPrevious(last) THEN <<Ev("issue_delete", last)>> ELSE <<>>) \o
    <<Ev("emit", "is_connecting")>>

\* lines 101-105: what the first synchronous segment of a call does, in
\* order, when the slot holds last: the notification, then the delete command
FirstSegment(last) ==
    <<Ev("emit", "is_connecting")>> \o
    (IF HasPrevious(last) THEN <<Ev("issue_delete", last)>> ELSE <<>>)

\* lines 108-119 with the first line of the connect function dispatched to:
\* record the SSID and issue the connect / add command
Dispatch(d, tr) ==
    /\ lastConnectionSSID' = RecordedSSID(d)
    /\ path' = DispatchPath(d)
    /\ trace' = Append(tr, Ev("issue_" \o DispatchPath(d), d.ssid))
    /\ pc' = "connect"

\* lines 121-122, reached from every return of the connect functions; a
\* rollback is a deleteConnectionBySSID(ssid) call that is not awaited: its
\* command is issued in the same segment and returns later (StrayDeleteReturns)
\* line 121 emitting the notification without the result
EmitResult_NoPayload(r) == [ev |-> "emit", arg |-> "connecting_result", payload |-> NoResult]

\* line 121: ipcMain.emit("connecting_result", null, result)
EmitResult(r) == [ev |-> "emit", arg |-> "connecting_result", payload |-> r]

FinishAfter(pre, r, rollback) ==
    /\ retval' = r
    /\ pc' = "done"
    /\ trace' = trace \o pre
                      \o (IF rollback THEN <<Ev("issue_delete", data.ssid)>> ELSE <<>>)
                      \o <<EmitResult(r)>>
    /\ inflight' = IF rollback THEN [inflight EXCEPT ![data.ssid] = @ + 1] ELSE inflight
    /\ UNCHANGED profiles
    /\ UNCHANGED <<suspended, bleVars>>
    /\ waitCaller' = "none"
    /\ probeCaller' = "none"
    /\ attempts' = 0
    /\ lastConnectionState' = NULL
    /\ connectionState' = NoResult
    /\ observed' = NoResult
    /\ sawActivating' = FALSE
    /\ queries' = 0
    /\ sleeps' = 0
    /\ serverAttempts' = 0
    /\ connection' = NoResult
    /\ probes' = 0

\* the same when the segment that returns has nothing else to record
Finish(r, rollback) == FinishAfter(<<>>, r, rollback) /\ UNCHANGED locals

\* a caller (UI handler line 683, BLE handler bleManager.js:82) calls
\* connectToNetwork(d) after the previous call has returned
ConnectToNetwork(d) ==
    /\ pc \in {"idle", "done", "handled"}
    /\ calls < MaxCalls
    /\ calls' = calls + 1
    /\ data' = d
    /\ atStart' = [last |-> lastConnectionSSID, inflight |-> InflightCount]
    /\ retval' = NoResult
    /\ activeConnection' = NoResult
    /\ IF HasPrevious(lastConnectionSSID)
       THEN /\ trace' = FirstSegment(lastConnectionSSID)
            /\ pc' = "L105"
            /\ path' = "none"
            /\ UNCHANGED lastConnectionSSID
       ELSE Dispatch(d, FirstSegment(lastConnectionSSID))
    /\ probed' = NoResult
    /\ onlyZeros' = TRUE
    /\ UNCHANGED <<waitCaller, probeCaller, inflight, profiles, suspended, bleVars>>
    /\ UNCHANGED waitVars
    /\ UNCHANGED <<serverAttempts, connection, probes>>
    /\ op' = "connectToNetwork"
    /\ locals' = NoLocals
    /\ UNCHANGED watchVars

\* the awaited delete of line 105 returns (deleteConnectionBySSID lines
\* 312-314), then lines 108-119 run
DeleteReturns(ok) ==
    /\ pc = "L105"
    /\ Dispatch(data, Append(trace, Ev(IF ok THEN "delete_ok" ELSE "delete_failed", atStart.last)))
    /\ profiles' = Deleted(profiles, ok, atStart.last)
    /\ UNCHANGED <<suspended, bleVars>>
    /\ UNCHANGED <<data, atStart, calls, waitCaller, probeCaller, activeConnection, retval, inflight>>
    /\ UNCHANGED waitVars
    /\ UNCHANGED probeVars
    /\ UNCHANGED <<op, locals>>
    /\ UNCHANGED watchVars

\* a delete command that was issued without await returns: line 313
StrayDeleteReturns(s) ==
    /\ inflight[s] > 0
    /\ inflight' = [inflight EXCEPT ![s] = @ - 1]
    /\ profiles' = Deleted(profiles, TRUE, s)
    /\ UNCHANGED <<suspended, bleVars>>
    /\ lastConnectionSSID' = NULL
    /\ UNCHANGED <<pc, waitCaller, probeCaller, activeConnection, retval, trace>>
    /\ UNCHANGED callVars
    /\ UNCHANGED waitVars
    /\ UNCHANGED probeVars
    /\ UNCHANGED <<op, locals>>
    /\ UNCHANGED watchVars

(* ---------------- attemptServerConnection (lines 288-304) -------------- *)

\* line 293: checkConnectionToServer issues the probe command
StartProbes(caller) ==
    /\ probeCaller' = caller
    /\ serverAttempts' = 0
    /\ connection' = NoResult
    /\ probes' = 1
    /\ probed' = NoResult
    /\ onlyZeros' = TRUE
    /\ pc' = "L293"

\* the probe loop's variables once attemptServerConnection has returned to
\* checkNetworkConnection
ProbesOver ==
    /\ probeCaller' = "none"
    /\ serverAttempts' = 0
    /\ connection' = NoResult
    /\ probes' = 0
    /\ UNCHANGED <<waitCaller, inflight, profiles, suspended, bleVars>>
    /\ UNCHANGED waitVars

\* line 378 with a test that never holds
EthernetDecides_Never(v) == v.js = "none"

\* line 378: ethernetResult.success && ethernetResult.stdout === "1"
EthernetDecides(v) == IsOne(v)

\* checkEthernetConnection returned v to checkNetworkConnection: lines 378-382
AfterEthernet(v) ==
    /\ locals' = [locals EXCEPT !.ethernetResult = v]
    /\ IF EthernetDecides(v)
       THEN /\ pc' = "returned"
            /\ retval' = EthernetValue(v)
            /\ trace' = trace
       ELSE /\ pc' = "L363"
            /\ trace' = Append(trace, Ev("issue_wifi_status", NULL))
            /\ UNCHANGED retval
    /\ ProbesOver

\* checkWifiConnection returned v to checkNetworkConnection: lines 384-389
AfterWifi(v) ==
    /\ locals' = [locals EXCEPT !.wifiResult = v]
    /\ IF IsOne(v)
       THEN /\ pc' = "L45"
            /\ trace' = Append(trace, Ev("issue_active_ssid", NULL))
            /\ UNCHANGED retval
       ELSE /\ pc' = "returned"
            /\ retval' = NoConnection
            /\ trace' = trace
    /\ ProbesOver

\* ProbesReturn without the rollback of lines 149 and 217
ProbesReturn_NoRollback(v) ==
    IF probeCaller = "direct"
    THEN /\ pc' = "returned"
         /\ retval' = v
         /\ connection' = v
         /\ UNCHANGED <<probeCaller, serverAttempts, probes, waitCaller, inflight, profiles, suspended, bleVars, trace, locals>>
         /\ UNCHANGED waitVars
    ELSE IF probeCaller = "ethernet" THEN AfterEthernet(v)
    ELSE IF probeCaller = "wifi" THEN AfterWifi(v)
    ELSE Finish(v, FALSE)

\* attemptServerConnection returns v to whoever awaits it: the test of lines
\* 144-152 (resolveNetworkConnection) and 212-220 (connectToHiddenNetwork),
\* checkEthernetConnection line 351 or checkWifiConnection line 366 on behalf
\* of checkNetworkConnection, or a direct caller
ProbesReturn(v) ==
    IF probeCaller = "direct"
    THEN /\ pc' = "returned"
         /\ retval' = v
         /\ connection' = v
         /\ UNCHANGED <<probeCaller, serverAttempts, probes, waitCaller, inflight, profiles, suspended, bleVars, trace, locals>>
         /\ UNCHANGED waitVars
    ELSE IF probeCaller = "ethernet" THEN AfterEthernet(v)
    ELSE IF probeCaller = "wifi" THEN AfterWifi(v)
    ELSE Finish(v, ~IsOne(v))

\* the probe of line 293 returns r: lines 295-299
ProbeReturns(r) ==
    /\ pc = "L293"
    /\ IF IsOne(r)
       THEN ProbesReturn(r)
       ELSE /\ connection' = r
            /\ serverAttempts' = serverAttempts + 1
            /\ pc' = "L299"
            /\ UNCHANGED <<probeCaller, probes, waitCaller, retval, inflight, profiles, suspended, bleVars, trace, locals>>
            /\ UNCHANGED waitVars
    /\ probed' = r
    /\ onlyZeros' = IF IsOne(r) THEN onlyZeros ELSE (onlyZeros /\ r.success /\ r.stdout = "0")
    /\ UNCHANGED <<lastConnectionSSID, activeConnection>>
    /\ UNCHANGED callVars
    /\ UNCHANGED op
    /\ UNCHANGED watchVars

\* the sleep of line 299 ends: loop test of line 292, then line 293 or 303
ProbeTimerFires ==
    /\ pc = "L299"
    /\ IF serverAttempts < MaxServerAttempts
       THEN /\ probes' = probes + 1
            /\ pc' = "L293"
            /\ UNCHANGED <<probeCaller, serverAttempts, connection, waitCaller, retval, inflight, profiles, suspended, bleVars, trace, locals>>
            /\ UNCHANGED waitVars
       ELSE ProbesReturn(connection)
    /\ UNCHANGED <<lastConnectionSSID, activeConnection, probed, onlyZeros>>
    /\ UNCHANGED callVars
    /\ UNCHANGED op
    /\ UNCHANGED watchVars

(* ---------------- waitForActiveConnection (lines 237-272) -------------- *)

\* lines 238-244: the first state query is issued
StartWait(caller) ==
    /\ waitCaller' = caller
    /\ attempts' = 0
    /\ lastConnectionState' = NULL
    /\ connectionState' = NoResult
    /\ observed' = NoResult
    /\ sawActivating' = FALSE
    /\ queries' = 1
    /\ sleeps' = 0
    /\ pc' = "L244"

\* WaitBranch without the regression rule of lines 257-261
WaitBranch_NoRegression(cs, last) ==
    IF cs.success /\ Includes(cs.stdout, "activated") THEN "activated"
    ELSE IF cs.success /\ Includes(cs.stdout, "activating") THEN "activating"
    ELSE IF cs.success /\ Includes(cs.stdout, "deactivated") THEN "deactivated"
    ELSE "retry"

\* WaitBranch with the test of line 246 written for a text no query prints
WaitBranch_MissesActivated(cs, last) ==
    IF cs.success /\ Includes(cs.stdout, "activating") THEN "activating"
    ELSE IF cs.success /\ Includes(cs.stdout, "deactivated") THEN "deactivated"
    ELSE IF last = "activating" THEN "regressed"
    ELSE "retry"

\* the if / else-if chain of lines 246-266, in the order the code tests
WaitBranch(cs, last) ==
    IF cs.success /\ Includes(cs.stdout, "activated") THEN "activated"
    ELSE IF cs.success /\ Includes(cs.stdout, "activating") THEN "activating"
    ELSE IF cs.success /\ Includes(cs.stdout, "deactivated") THEN "deactivated"
    ELSE IF last = "activating" THEN "regressed"
    ELSE "retry"

\* an activating text that does not end the wait
IsActivatingObs(obs) ==
    /\ obs.success
    /\ Includes(obs.stdout, "activating")
    /\ ~Includes(obs.stdout, "activated")

\* WaitReturns leaving the profile in place when the wait failed (no line 155)
WaitReturns_NoRollback(v, cs) ==
    IF waitCaller = "direct"
    THEN /\ pc' = "returned"
         /\ retval' = v
         /\ connectionState' = cs
         /\ UNCHANGED <<waitCaller, attempts, lastConnectionState, queries, sleeps,
                        activeConnection, inflight, profiles, suspended, bleVars, trace>>
         /\ UNCHANGED <<probeCaller, serverAttempts, connection, probes, probed, onlyZeros>>
    ELSE IF v.success
    THEN /\ activeConnection' = v
         /\ StartProbes("resolve")
         /\ waitCaller' = "none"
         /\ attempts' = 0
         /\ lastConnectionState' = NULL
         /\ connectionState' = NoResult
         /\ queries' = 0
         /\ sleeps' = 0
         /\ trace' = Append(trace, Ev("issue_probe", "server"))
         /\ UNCHANGED <<retval, inflight, profiles, suspended, bleVars>>
    ELSE /\ activeConnection' = v
         /\ Finish(v, FALSE)
         /\ UNCHANGED <<probed, onlyZeros>>

\* waitForActiveConnection returns v; cs is connectionState as the code left
\* it.  Lines 138-158 of resolveNetworkConnection follow when it is the caller.
WaitReturns(v, cs) ==
    IF waitCaller = "direct"
    THEN /\ pc' = "returned"
         /\ retval' = v
         /\ connectionState' = cs
         /\ UNCHANGED <<waitCaller, attempts, lastConnectionState, queries, sleeps,
                        activeConnection, inflight, profiles, suspended, bleVars, trace>>
         /\ UNCHANGED <<probeCaller, serverAttempts, connection, probes, probed, onlyZeros>>
    ELSE IF v.success
    THEN /\ activeConnection' = v
         /\ StartProbes("resolve")
         /\ waitCaller' = "none"
         /\ attempts' = 0
         /\ lastConnectionState' = NULL
         /\ connectionState' = NoResult
         /\ queries' = 0
         /\ sleeps' = 0
         /\ trace' = Append(trace, Ev("issue_probe", "server"))
         /\ UNCHANGED <<retval, inflight, profiles, suspended, bleVars>>
    ELSE /\ activeConnection' = v
         /\ Finish(v, TRUE)
         /\ UNCHANGED <<probed, onlyZeros>>

\* the state query of line 244 returns cs: lines 246-266
StateQueryReturns(cs) ==
    /\ pc = "L244"
    /\ LET branch == WaitBranch(cs, lastConnectionState)
       IN  /\ IF waitCaller = "direct" \/ branch \in {"activating", "retry"}
              THEN /\ observed' = cs
                   /\ sawActivating' = (sawActivating \/ IsActivatingObs(cs))
              ELSE /\ observed' = NoResult
                   /\ sawActivating' = FALSE
           /\ CASE branch = "activated" ->
                   WaitReturns(cs, cs)
                [] branch = "deactivated" ->
                   WaitReturns(JsFalse, [cs EXCEPT !.success = FALSE, !.stdout = DeactivatingMsg])
                [] branch = "regressed" ->
                   LET tagged == [cs EXCEPT !.success = FALSE, !.stderr = RegressedMsg, !.type = PSK]
                   IN  WaitReturns(tagged, tagged)
                [] branch \in {"activating", "retry"} ->
                   /\ connectionState' = cs
                   /\ lastConnectionState' = IF branch = "activating" THEN "activating" ELSE lastConnectionState
                   /\ attempts' = attempts + 1
                   /\ sleeps' = sleeps + 1
                   /\ pc' = "sleep"
                   /\ UNCHANGED <<waitCaller, queries, activeConnection, retval, inflight, profiles, suspended, bleVars, trace>>
                   /\ UNCHANGED <<probeCaller, serverAttempts, connection, probes, probed, onlyZeros>>
    /\ UNCHANGED lastConnectionSSID
    /\ UNCHANGED callVars
    /\ UNCHANGED <<op, locals>>
    /\ UNCHANGED watchVars

\* the sleep of line 251 or 264 ends: loop test of line 243, then line 244
\* or lines 269-271
WaitTimerFires ==
    /\ pc = "sleep"
    /\ IF attempts < MaxStateAttempts
       THEN /\ queries' = queries + 1
            /\ pc' = "L244"
            /\ UNCHANGED <<waitCaller, attempts, lastConnectionState, connectionState,
                           observed, sawActivating, sleeps, activeConnection, retval, inflight, profiles, suspended, bleVars, trace>>
            /\ UNCHANGED <<probeCaller, serverAttempts, connection, probes, probed, onlyZeros>>
       ELSE LET failed == [connectionState EXCEPT !.success = FALSE, !.stderr = ExceededMsg]
            IN  /\ WaitReturns(failed, failed)
                /\ IF waitCaller = "direct" THEN UNCHANGED <<observed, sawActivating>> ELSE TRUE
    /\ UNCHANGED lastConnectionSSID
    /\ UNCHANGED callVars
    /\ UNCHANGED <<op, locals>>
    /\ UNCHANGED watchVars

(* ---------------- the connect functions (lines 131-230) ---------------- *)

\* second argument of executeCommand in lines 173, 187 and 201
ConnectType(p) ==
    CASE p = "open" -> "Unsecure network connection"
      [] p = "wpa" -> "WPA network connection"
      [] p = "hidden" -> "Network connection"

\* line 203 letting every result of the add command through
AddAffirmed_Always(r) == r.js = "object"

\* line 203: the add command of the hidden path affirms the addition
AddAffirmed(r) == r.success /\ Includes(r.stdout, "successfully added")

\* line 208: the up command of the hidden path affirms the activation
UpAffirmed(r) == r.success /\ Includes(r.stdout, "Connection successfully activated")

\* line 136 with a test that lets every result through
ConnectSucceeded_Always(r) == r.js = "object"

\* line 136: if (connection.success)
ConnectSucceeded(r) == r.success

\* the connect / add command of line 173, 187 or 201 returns r; then
\* resolveNetworkConnection lines 132-136 and 159-161, or lines 203-206 and 227-228
ConnectReturns(r) ==
    /\ pc = "connect"
    /\ r.type = ConnectType(path)
    /\ IF path \in {"open", "wpa"}
       THEN IF ConnectSucceeded(r)
            THEN /\ StartWait("resolve")
                 /\ trace' = trace \o <<Returned("connect", r), Ev("issue_query", data.ssid)>>
                 /\ profiles' = Created(profiles, data.ssid)
                 /\ UNCHANGED <<suspended, bleVars>>
                 /\ UNCHANGED <<retval, inflight>>
                 /\ UNCHANGED <<probeCaller, serverAttempts, connection, probes, probed, onlyZeros>>
            ELSE FinishAfter(<<Returned("connect", r)>>, r, FALSE) /\ UNCHANGED <<probed, onlyZeros>>
       ELSE IF AddAffirmed(r)
            THEN /\ pc' = "L206"
                 /\ trace' = trace \o <<Returned("connect", r), Ev("issue_up", data.ssid)>>
                 /\ profiles' = Created(profiles, data.ssid)
                 /\ UNCHANGED <<suspended, bleVars>>
                 /\ UNCHANGED <<waitCaller, retval, inflight>>
                 /\ UNCHANGED waitVars
                 /\ UNCHANGED <<probeCaller, serverAttempts, connection, probes, probed, onlyZeros>>
            ELSE FinishAfter(<<Returned("connect", r)>>, r, FALSE) /\ UNCHANGED <<probed, onlyZeros>>
    /\ UNCHANGED <<lastConnectionSSID, activeConnection>>
    /\ UNCHANGED callVars
    /\ locals' = IF path = "hidden"
                 THEN [of |-> "hidden", added |-> r, upped |-> NoResult]
                 ELSE locals
    /\ UNCHANGED op
    /\ UNCHANGED watchVars

\* the up command of line 206 returns r: lines 208-226
UpReturns(r) ==
    /\ pc = "L206"
    /\ IF UpAffirmed(r)
       THEN /\ StartProbes("hidden")
            /\ trace' = trace \o <<Returned("up", r), Ev("issue_probe", "server")>>
            /\ UNCHANGED <<waitCaller, retval, inflight, profiles, suspended, bleVars>>
            /\ UNCHANGED waitVars
       ELSE FinishAfter(<<Returned("up", r)>>, r, TRUE) /\ UNCHANGED <<probed, onlyZeros>>
    /\ UNCHANGED <<lastConnectionSSID, activeConnection>>
    /\ UNCHANGED callVars
    /\ locals' = [locals EXCEPT !.upped = r]
    /\ UNCHANGED op
    /\ UNCHANGED watchVars

(* ---------------- the two polling functions called on their own -------- *)

\* waitForActiveConnection(ssid) called by itself
WaitForActiveConnection ==
    /\ pc = "idle"
    /\ StartWait("direct")
    /\ UNCHANGED <<lastConnectionSSID, activeConnection, retval, inflight, profiles, suspended, bleVars, trace>>
    /\ UNCHANGED <<probeCaller, serverAttempts, connection, probes, probed, onlyZeros>>
    /\ UNCHANGED callVars
    /\ op' = "waitForActiveConnection"
    /\ locals' = NoLocals
    /\ UNCHANGED watchVars

\* attemptServerConnection() called by itself (as lines 351 and 366 do)
AttemptServerConnection ==
    /\ pc = "idle"
    /\ StartProbes("direct")
    /\ UNCHANGED <<lastConnectionSSID, activeConnection, retval, inflight, profiles, suspended, bleVars, trace, waitCaller>>
    /\ UNCHANGED waitVars
    /\ UNCHANGED callVars
    /\ op' = "attemptServerConnection"
    /\ locals' = NoLocals
    /\ UNCHANGED watchVars

(* ---------------- operations called on their own ----------------------- *)

\* what no operation of this section touches
restOfOp == <<data, path, atStart, waitCaller, activeConnection, inflight, profiles, suspended, bleVars, waitVars, watchVars>>

\* an exported function is called while no other call is running: its first
\* segment issues one command and suspends at the label; the local variables
\* of the calls that have returned are gone
OpStartWith(label, tr) ==
    /\ pc \in {"idle", "returned", "thrown", "handled"}
    /\ calls < MaxCalls
    /\ calls' = calls + 1
    /\ pc' = label
    /\ trace' = tr
    /\ retval' = NoResult
    /\ probed' = NoResult
    /\ onlyZeros' = TRUE
    /\ probeCaller' = "none"
    /\ serverAttempts' = 0
    /\ connection' = NoResult
    /\ probes' = 0
    /\ waitCaller' = "none"
    /\ attempts' = 0
    /\ lastConnectionState' = NULL
    /\ connectionState' = NoResult
    /\ activeConnection' = NoResult
    /\ observed' = NoResult
    /\ sawActivating' = FALSE
    /\ queries' = 0
    /\ sleeps' = 0
    /\ UNCHANGED <<lastConnectionSSID, data, path, atStart, inflight, profiles, suspended, bleVars>>
    /\ UNCHANGED watchVars

\* the call is made from outside the handlers the model follows
OpStart(label, issue) == OpStartWith(label, <<issue>>)

\* a step of an operation that is not in a probe loop
OpStep == UNCHANGED <<calls, op, probeCaller, probeVars>> /\ UNCHANGED restOfOp

\* line 313 clearing the slot only when the delete command succeeded
SlotAfterDelete_OnSuccess(r, last) == IF r.success THEN NULL ELSE last

\* line 313: lastConnectionSSID = null
SlotAfterDelete(r, last) == NULL

\* line 314: return deleteResult.success
DeleteReturnValue(r) == JsBool(r.success)

\* deleteConnectionBySSID(s): lines 311-312
DeleteConnectionBySSID(s) ==
    /\ OpStart("L312", Ev("issue_delete", s))
    /\ op' = "deleteConnectionBySSID"
    /\ locals' = [of |-> "delete", ssid |-> s, before |-> lastConnectionSSID,
                  deleteResult |-> NoResult]

\* the delete command of line 312 returns r: lines 313-314
DirectDeleteReturns(r) ==
    /\ pc = "L312"
    /\ lastConnectionSSID' = SlotAfterDelete(r, lastConnectionSSID)
    /\ locals' = [locals EXCEPT !.deleteResult = r]
    /\ trace' = Append(trace, Returned("delete", r))
    /\ pc' = "returned"
    /\ retval' = DeleteReturnValue(r)
    /\ OpStep

\* lines of the profile listing the model follows
MaxProfiles == 2

WIFI == "802-11-wireless"

ETHERNET == "802-3-ethernet"

\* one line of the listing of line 321 as the pieces of text between its
\* colons, with ":" for each colon.  nmcli -t prints "name:type" and writes a
\* colon inside a name as "\:", so the profile named "My:Net" is listed as
\* the last line here.
Profiles ==
    {<<"Home", ":", WIFI>>,
     <<"Eth0", ":", ETHERNET>>,
     <<"lo", ":", "loopback">>,
     <<"My\\", ":", "Net", ":", WIFI>>}

\* standard output of the listing command as its lines
Listings == UNION {[1..n -> Profiles] : n \in 0..MaxProfiles}

\* line 325: stdout.split("\n"); the empty output gives one empty line
SplitLines(out) == IF out = <<>> THEN << <<>> >> ELSE out

\* the text between two colons
Piece(tokens) == IF tokens = <<>> THEN "" ELSE tokens[1]

\* line 328: lines[i].split(":")
RECURSIVE SplitColon(_)
SplitColon(line) ==
    LET colons == {i \in 1..Len(line) : line[i] = ":"}
    IN  IF colons = {} THEN <<Piece(line)>>
        ELSE LET c == CHOOSE i \in colons : \A j \in colons : i <= j
             IN  <<Piece(SubSeq(line, 1, c - 1))>> \o SplitColon(SubSeq(line, c + 1, Len(line)))

\* reading an array at an index, which is undefined past its end
At(fields, n) == IF n <= Len(fields) THEN fields[n] ELSE UNDEF

\* line 329: const name = line[0]
NameOf(line) == At(SplitColon(line), 1)

\* line 330: const type = line[1]
TypeOf(line) == At(SplitColon(line), 2)

\* first index from i on whose line takes a branch of lines 332-338, or one
\* past the end
NextBranch(lines, i) ==
    LET taken == {j \in i..Len(lines) : TypeOf(lines[j]) \in {WIFI, ETHERNET}}
    IN IF taken = {} THEN Len(lines) + 1
       ELSE CHOOSE j \in taken : \A k \in taken : j <= k

\* the for loop of lines 327-339 from index i up to its next await or its end
ResetLoop(lines, i, tr) ==
    LET k == NextBranch(lines, i)
    IN /\ locals' = [locals EXCEPT !.lines = lines, !.i = k]
       /\ IF k > Len(lines)
          THEN /\ pc' = "returned"
               /\ retval' = JsUndefined
               /\ trace' = tr
          ELSE /\ pc' = IF TypeOf(lines[k]) = WIFI THEN "L333" ELSE "L336"
               /\ trace' = Append(tr, Ev(IF TypeOf(lines[k]) = WIFI THEN "issue_delete" ELSE "issue_dns",
                                         NameOf(lines[k])))
               /\ UNCHANGED retval

\* resetAllConnections(): lines 321-323
ResetAllConnections ==
    /\ OpStart("L323", Ev("issue_list", NULL))
    /\ op' = "resetAllConnections"
    /\ locals' = [of |-> "reset", lines |-> <<>>, i |-> 0]

\* the listing command of line 323 returns r: line 325 reads r.stdout.split,
\* which throws a TypeError when stdout is null, as it is in every failed
\* result of executeCommand and in no other
ListReturns(r) ==
    /\ pc = "L323"
    /\ IF ~r.success
       THEN /\ pc' = "thrown"
            /\ trace' = Append(trace, Returned("list", r))
            /\ UNCHANGED <<retval, locals>>
       ELSE ResetLoop(SplitLines(r.stdout), 1, Append(trace, Returned("list", r)))
    /\ UNCHANGED lastConnectionSSID
    /\ OpStep

\* the awaited deleteConnectionBySSID of line 333 returns: line 313, then the
\* loop goes on
ResetDeleteReturns(r) ==
    /\ pc = "L333"
    /\ lastConnectionSSID' = SlotAfterDelete(r, lastConnectionSSID)
    /\ ResetLoop(locals.lines, locals.i + 1, Append(trace, Returned("delete", r)))
    /\ OpStep

\* the command of line 336 returns r: line 337 issues the next one
ResetDnsReturns(r) ==
    /\ pc = "L336"
    /\ pc' = "L337"
    /\ trace' = trace \o <<Returned("dns", r), Ev("issue_autodns", NameOf(locals.lines[locals.i]))>>
    /\ UNCHANGED <<lastConnectionSSID, retval, locals>>
    /\ OpStep

\* the command of line 337 returns r: the loop goes on
ResetAutoDnsReturns(r) ==
    /\ pc = "L337"
    /\ ResetLoop(locals.lines, locals.i + 1, Append(trace, Returned("autodns", r)))
    /\ UNCHANGED lastConnectionSSID
    /\ OpStep

\* the constants of addDNS: the first failed result, and connectionName of
\* line 424
AddDnsLocals == [of |-> "addDNS", failed |-> NoResult, connectionName |-> UNDEF]

\* addDNS(dns): line 422, getActiveConnectionUUID issues its command
AddDNS ==
    /\ OpStart("L422", Ev("issue_uuid", NULL))
    /\ op' = "addDNS"
    /\ locals' = AddDnsLocals

\* what addDNS remembers of a command that returned r
NoteFailure(loc, r) == IF r.success \/ loc.failed # NoResult THEN loc ELSE [loc EXCEPT !.failed = r]

\* line 423: if (connectionNameResult.success)
UuidFound(r) == r.success

\* the UUID command returns r: lines 423-426, or the end of the function
UuidReturns(r) ==
    /\ pc = "L422"
    /\ locals' = IF UuidFound(r) THEN [locals EXCEPT !.connectionName = r.stdout]
                  ELSE NoteFailure(locals, r)
    /\ IF UuidFound(r)
       THEN /\ pc' = "L426"
            /\ trace' = trace \o <<Returned("uuid", r), Ev("issue_dns", r.stdout)>>
            /\ UNCHANGED retval
       ELSE /\ pc' = "returned"
            /\ retval' = JsUndefined
            /\ trace' = Append(trace, Returned("uuid", r))
    /\ UNCHANGED lastConnectionSSID
    /\ OpStep

\* the command of line 426 returns r: lines 427-428 or 436
ModifyReturns(r) ==
    /\ pc = "L426"
    /\ locals' = NoteFailure(locals, r)
    /\ IF r.success
       THEN /\ pc' = "L428"
            /\ trace' = trace \o <<Returned("dns", r), Ev("issue_autodns", NULL)>>
            /\ UNCHANGED retval
       ELSE /\ pc' = "returned"
            /\ retval' = r
            /\ trace' = Append(trace, Returned("dns", r))
    /\ UNCHANGED lastConnectionSSID
    /\ OpStep

\* line 430 testing the success flag of the result
DisableSucceeded_Flag(r) == r.success

\* line 430: if (disableAutoDNS); the result object itself is tested, and an
\* object is truthy
DisableSucceeded(r) == r.js = "object"

\* the command of line 428 returns r: lines 430-434
DisableReturns(r) ==
    /\ pc = "L428"
    /\ locals' = NoteFailure(locals, r)
    /\ IF DisableSucceeded(r)
       THEN /\ pc' = "L431"
            /\ trace' = trace \o <<Returned("autodns", r), Ev("issue_cycle", NULL)>>
            /\ UNCHANGED retval
       ELSE /\ pc' = "returned"
            /\ retval' = r
            /\ trace' = Append(trace, Returned("autodns", r))
    /\ UNCHANGED lastConnectionSSID
    /\ OpStep

\* CycleReturns forgetting the profile connectToNetwork made
CycleReturns_ClearsSlot(r) ==
    /\ pc = "L431"
    /\ locals' = NoteFailure(locals, r)
    /\ pc' = "returned"
    /\ retval' = r
    /\ trace' = Append(trace, Returned("cycle", r))
    /\ lastConnectionSSID' = NULL
    /\ OpStep

\* the command of line 431 returns r, and addDNS returns it
CycleReturns(r) ==
    /\ pc = "L431"
    /\ locals' = NoteFailure(locals, r)
    /\ pc' = "returned"
    /\ retval' = r
    /\ trace' = Append(trace, Returned("cycle", r))
    /\ UNCHANGED lastConnectionSSID
    /\ OpStep

\* checkNetworkConnection(): line 376 enters checkEthernetConnection, whose
\* line 348 issues the ethernet status command
CheckNetworkConnection ==
    /\ OpStart("L348", Ev("issue_ethernet_status", NULL))
    /\ op' = "checkNetworkConnection"
    /\ locals' = [of |-> "check", ethernetLink |-> NoResult, ethernetResult |-> NoResult,
                  wifiLink |-> NoResult, wifiResult |-> NoResult, connectionName |-> NoResult]

\* the ethernet status command returns r: lines 350-354
EthernetStatusReturns(r) ==
    /\ pc = "L348"
    /\ IF IsOne(r)
       THEN /\ StartProbes("ethernet")
            /\ locals' = [locals EXCEPT !.ethernetLink = r]
            /\ trace' = Append(trace, Ev("issue_probe", "server"))
            /\ UNCHANGED <<retval, waitCaller, inflight, profiles, suspended, bleVars>>
            /\ UNCHANGED waitVars
       ELSE /\ LET here == [locals EXCEPT !.ethernetLink = r]
               IN /\ locals' = [here EXCEPT !.ethernetResult = r]
                  /\ IF EthernetDecides(r)
                     THEN /\ pc' = "returned"
                          /\ retval' = EthernetValue(r)
                          /\ trace' = trace
                     ELSE /\ pc' = "L363"
                          /\ trace' = Append(trace, Ev("issue_wifi_status", NULL))
                          /\ UNCHANGED retval
            /\ UNCHANGED <<probeCaller, probeVars, waitCaller, inflight, profiles, suspended, bleVars>>
            /\ UNCHANGED waitVars
    /\ UNCHANGED <<lastConnectionSSID, activeConnection, op>>
    /\ UNCHANGED callVars
    /\ UNCHANGED watchVars

\* the Wi-Fi status command returns r: lines 365-369
WifiStatusReturns(r) ==
    /\ pc = "L363"
    /\ IF IsOne(r)
       THEN /\ StartProbes("wifi")
            /\ locals' = [locals EXCEPT !.wifiLink = r]
            /\ trace' = Append(trace, Ev("issue_probe", "server"))
            /\ UNCHANGED retval
       ELSE /\ locals' = [locals EXCEPT !.wifiLink = r, !.wifiResult = r]
            /\ pc' = "returned"
            /\ retval' = NoConnection
            /\ trace' = trace
            /\ UNCHANGED <<probeCaller, probeVars>>
    /\ UNCHANGED <<lastConnectionSSID, activeConnection, op, waitCaller, inflight, profiles, suspended, bleVars>>
    /\ UNCHANGED waitVars
    /\ UNCHANGED callVars
    /\ UNCHANGED watchVars

\* the command of getActiveSSID (line 45) returns r: line 386
ActiveSsidReturns(r) ==
    /\ pc = "L45"
    /\ locals' = [locals EXCEPT !.connectionName = r]
    /\ trace' = Append(trace, Returned("active_ssid", r))
    /\ pc' = "returned"
    /\ retval' = WifiValue(locals.wifiResult, r.stdout)
    /\ UNCHANGED lastConnectionSSID
    /\ OpStep

(* ---------------- the ethernet watch (lines 395-416) ------------------- *)

\* what the watch never touches
callState ==
    <<lastConnectionSSID, pc, data, path, waitCaller, activeConnection, probeCaller,
      retval, inflight, profiles, suspended, bleVars, trace, atStart, calls, op, locals, waitVars, probeVars>>

\* the timers that still fire
ActiveTimers == {t \in 1..Len(timers) : timers[t] = "active"}

\* line 413 for a handle that is a timer: clearInterval(ethernetInterval)
StopNow(handle, ts) == [ts EXCEPT ![handle.id] = "cleared"]

\* line 412: if (ethernetInterval)
HandleSet(handle) == handle.js = "object"

\* stopEthernetInterval as one synchronous segment: lines 412-415
StopSegment ==
    IF HandleSet(ethernetInterval)
    THEN /\ timers' = StopNow(ethernetInterval, timers)
         /\ ethernetInterval' = NullHandle
    ELSE UNCHANGED <<timers, ethernetInterval>>

\* checkEthernetConnectionInterval(): line 396 stores the handle of a new
\* timer, whatever the handle held before
CheckEthernetConnectionInterval ==
    /\ Len(timers) < MaxStarts
    /\ timers' = Append(timers, "active")
    /\ ethernetInterval' = TimerHandle(Len(timers) + 1)
    /\ UNCHANGED <<ticks, emitted, received, fired>>
    /\ UNCHANGED callState

\* stopEthernetInterval() called from outside the watch (main.js:613, 760)
\* while a handle is set
StopEthernetInterval ==
    /\ HandleSet(ethernetInterval)
    /\ StopSegment
    /\ UNCHANGED <<ticks, emitted, received, fired>>
    /\ UNCHANGED callState

\* a callback of the watch that has just been entered
NewTick(t) == [timer |-> t, pc |-> "L348", attempts |-> 0]

\* 2 s have passed for timer t: its callback is entered, and line 398 runs
\* checkEthernetConnection up to the await of line 348
TimerFires(t) ==
    /\ t \in ActiveTimers
    /\ fired < MaxTicks
    /\ fired' = fired + 1
    /\ ticks' = ticks (+) SetToBag({NewTick(t)})
    /\ UNCHANGED <<ethernetInterval, timers, emitted, received>>
    /\ UNCHANGED callState

\* the callback k goes on as k2
TickMoves(k, k2) == ticks' = (ticks (-) SetToBag({k})) (+) SetToBag({k2})

\* the callback k ends without a notification: lines 350-354 returned a
\* result that line 400 does not accept
TickEnds(k) ==
    /\ ticks' = ticks (-) SetToBag({k})
    /\ UNCHANGED <<ethernetInterval, timers, emitted, received>>

\* the n-th argument a listener is called with, undefined when the emit
\* passed fewer
Argument(args, n) == IF n <= Len(args) THEN args[n] ELSE JsUndefined

\* lines 773-775: ipcMain.on("ethernet_status", (_event, result)) called with
\* the arguments of the emit after the event name
EthernetStatusListener(args) ==
    [ev |-> "send", arg |-> "connect_to_network_status", payload |-> Argument(args, 2)]

\* the callback k ends at lines 400-403: it emits "ethernet_status" and
\* calls stopEthernetInterval
TickNotifies(k, result) ==
    /\ ticks' = ticks (-) SetToBag({k})
    /\ emitted' = [emitted EXCEPT ![k.timer] = @ + 1]
    /\ received' = Append(received, EthernetStatusListener(<<result>>))
    /\ StopSegment

\* the status command of line 348 returns r to the callback k: lines 350-354,
\* then either line 293 or line 400
TickStatusReturns(k, r) ==
    /\ k \in BagToSet(ticks)
    /\ k.pc = "L348"
    /\ IF IsOne(r)
       THEN /\ TickMoves(k, [k EXCEPT !.pc = "L293"])
            /\ UNCHANGED <<ethernetInterval, timers, emitted, received>>
       ELSE TickEnds(k)
    /\ UNCHANGED fired
    /\ UNCHANGED callState

\* the probe of line 293 returns r to the callback k: lines 295-299, and
\* lines 400-403 when attemptServerConnection returns r
TickProbeReturns(k, r) ==
    /\ k \in BagToSet(ticks)
    /\ k.pc = "L293"
    /\ IF IsOne(r)
       THEN TickNotifies(k, r)
       ELSE /\ TickMoves(k, [k EXCEPT !.pc = "L299", !.attempts = @ + 1])
            /\ UNCHANGED <<ethernetInterval, timers, emitted, received>>
    /\ UNCHANGED fired
    /\ UNCHANGED callState

\* the sleep of line 299 ends for the callback k: loop test of line 292, then
\* line 293, or line 303 with a result that line 400 does not accept
TickSleepEnds(k) ==
    /\ k \in BagToSet(ticks)
    /\ k.pc = "L299"
    /\ IF k.attempts < MaxServerAttempts
       THEN /\ TickMoves(k, [k EXCEPT !.pc = "L293"])
            /\ UNCHANGED <<ethernetInterval, timers, emitted, received>>
       ELSE TickEnds(k)
    /\ UNCHANGED fired
    /\ UNCHANGED callState

\* the states a callback can be suspended in
TickStates ==
    [timer : 1..MaxStarts, pc : {"L348", "L293", "L299"}, attempts : 0..MaxServerAttempts]

(* ---------------- specifications ---------------- *)

\* connectToNetwork calls made one after another, with every outcome of
\* every command
Next ==
    \/ \E d \in Requests : ConnectToNetwork(d)
    \/ \E ok \in BOOLEAN : DeleteReturns(ok)
    \/ \E r \in ExecOutcomes(ConnectType("open"), AddTexts)
              \cup ExecOutcomes(ConnectType("wpa"), AddTexts)
              \cup ExecOutcomes(ConnectType("hidden"), AddTexts) : ConnectReturns(r)
    \/ \E r \in ExecOutcomes(NULL, UpTexts) : UpReturns(r)
    \/ \E cs \in ExecOutcomes(NULL, StateTexts) : StateQueryReturns(cs)
    \/ WaitTimerFires
    \/ \E r \in ExecOutcomes("server connection", ProbeTexts) : ProbeReturns(r)
    \/ ProbeTimerFires
    \/ \E s \in SSIDs : StrayDeleteReturns(s)

Spec == Init /\ [][Next]_vars

\* the last call of a series whose unawaited deletes have all returned: the
\* slot holds what the earlier calls left in it
InitCall ==
    \E last \in SSIDs \cup {NULL, UNDEF} :
        InitSeries(last, NoLocals, NotFollowed, MaxCalls - 1, [s \in SSIDs |-> 0])

SpecCall == InitCall /\ [][Next]_vars

\* every command returns and every timer fires
FairSpecCall == SpecCall /\ WF_vars(Next)

\* one call of waitForActiveConnection
NextWait ==
    \/ WaitForActiveConnection
    \/ \E cs \in ExecOutcomes(NULL, StateTexts) : StateQueryReturns(cs)
    \/ WaitTimerFires

SpecWait == Init /\ [][NextWait]_vars

\* every command returns and every timer fires
FairSpecWait == SpecWait /\ WF_vars(NextWait)

\* one call of attemptServerConnection
NextProbe ==
    \/ AttemptServerConnection
    \/ \E r \in ExecOutcomes("server connection", ProbeTexts) : ProbeReturns(r)
    \/ ProbeTimerFires

SpecProbe == Init /\ [][NextProbe]_vars

\* the operations of the module called one after another, each with every
\* outcome of every command
NextOps ==
    \/ \E s \in SSIDs : DeleteConnectionBySSID(s)
    \/ \E r \in ExecOutcomes("delete ssid", {""}) : DirectDeleteReturns(r)
    \/ ResetAllConnections
    \/ \E r \in ExecOutcomes("Delete all connections", Listings) : ListReturns(r)
    \/ \E r \in ExecOutcomes("delete ssid", {""}) : ResetDeleteReturns(r)
    \/ \E r \in ExecOutcomes(NULL, {""}) : ResetDnsReturns(r)
    \/ \E r \in ExecOutcomes(NULL, {""}) : ResetAutoDnsReturns(r)
    \/ AddDNS
    \/ \E r \in ExecOutcomes(NULL, {"uuid-1"}) : UuidReturns(r)
    \/ \E r \in ExecOutcomes(NULL, {""}) : ModifyReturns(r)
    \/ \E r \in ExecOutcomes(NULL, {""}) : DisableReturns(r)
    \/ \E r \in ExecOutcomes(NULL, {""}) : CycleReturns(r)
    \/ CheckNetworkConnection
    \/ \E r \in ExecOutcomes(NULL, ProbeTexts) : EthernetStatusReturns(r)
    \/ \E r \in ExecOutcomes(NULL, ProbeTexts) : WifiStatusReturns(r)
    \/ \E r \in ExecOutcomes("server connection", ProbeTexts) : ProbeReturns(r)
    \/ ProbeTimerFires
    \/ \E r \in ExecOutcomes(NULL, SSIDs) : ActiveSsidReturns(r)

SpecOps == InitOps /\ [][NextOps]_vars

\* every call the model follows, made while no other call is running
NextAll ==
    \/ \E d \in Requests : ConnectToNetwork(d)
    \/ \E ok \in BOOLEAN : DeleteReturns(ok)
    \/ \E r \in ExecOutcomes(ConnectType("open"), AddTexts)
              \cup ExecOutcomes(ConnectType("wpa"), AddTexts)
              \cup ExecOutcomes(ConnectType("hidden"), AddTexts) : ConnectReturns(r)
    \/ \E r \in ExecOutcomes(NULL, UpTexts) : UpReturns(r)
    \/ WaitForActiveConnection
    \/ \E cs \in ExecOutcomes(NULL, StateTexts) : StateQueryReturns(cs)
    \/ WaitTimerFires
    \/ AttemptServerConnection
    \/ \E r \in ExecOutcomes("server connection", ProbeTexts) : ProbeReturns(r)
    \/ ProbeTimerFires
    \/ \E s \in SSIDs : StrayDeleteReturns(s)
    \/ CheckNetworkConnection
    \/ \E r \in ExecOutcomes(NULL, ProbeTexts) : EthernetStatusReturns(r)
    \/ \E r \in ExecOutcomes(NULL, ProbeTexts) : WifiStatusReturns(r)
    \/ \E r \in ExecOutcomes(NULL, SSIDs) : ActiveSsidReturns(r)

SpecAll == Init /\ [][NextAll]_vars

\* connectToNetwork calls one after another on a fresh process, with the
\* profiles their commands create and delete followed
InitOrphans == InitFrom(UNDEF, NoLocals, Followed)

SpecOrphans == InitOrphans /\ [][Next]_vars

\* the ethernet watch: starts, stops, timer ticks and the commands of the
\* callbacks returning in any order
NextWatch ==
    \/ CheckEthernetConnectionInterval
    \/ StopEthernetInterval
    \/ \E t \in 1..MaxStarts : TimerFires(t)
    \/ \E k \in TickStates : \E r \in ExecOutcomes(NULL, ProbeTexts) : TickStatusReturns(k, r)
    \/ \E k \in TickStates : \E r \in ExecOutcomes("server connection", ProbeTexts) :
           TickProbeReturns(k, r)
    \/ \E k \in TickStates : TickSleepEnds(k)

SpecWatch == Init /\ [][NextWatch]_vars

\* ---------------------------------------------------------------------
\* utils.js: parseWiFiScanResults (lines 513-545), a pure function of the
\* text `nmcli --fields SSID,SECURITY --terse --mode multiline` printed.
\* A text is the sequence of its pieces: the two field markers, the blank,
\* the line break and the words are pieces
\* ---------------------------------------------------------------------
SSIDMark == "SSID:"

SECURITYMark == "SECURITY:"

BLANK == " "

NEWLINE == "\n"

\* lines of a scan output the model follows
MaxScanLines == 4

\* the lines a scan output is made of: the two fields with and without
\* surrounding blanks, with and without a value, an empty line and a line
\* of another field
ScanLinePool ==
    { <<>>,
      <<SSIDMark, "Home">>,
      <<BLANK, SSIDMark, BLANK, "Home", BLANK>>,
      <<SSIDMark, "Cafe">>,
      <<SSIDMark>>,
      <<SSIDMark, BLANK>>,
      <<SECURITYMark, "WPA2">>,
      <<BLANK, SECURITYMark, BLANK, "WEP">>,
      <<SECURITYMark>>,
      <<"BSSID:", "AA">> }

ScanLineLists == UNION { [1..n -> ScanLinePool] : n \in 1..MaxScanLines }

\* the text whose lines are ls: the lines with a line break between them
RECURSIVE JoinLines(_)
JoinLines(ls) ==
    IF Len(ls) = 1 THEN ls[1] ELSE ls[1] \o <<NEWLINE>> \o JoinLines(Tail(ls))

\* String.prototype.split with a one-piece separator
RECURSIVE Split(_, _)
Split(text, sep) ==
    IF \A k \in 1..Len(text) : text[k] # sep
    THEN <<text>>
    ELSE LET k == CHOOSE k \in 1..Len(text) :
                      text[k] = sep /\ \A m \in 1..(k - 1) : text[m] # sep
         IN  <<SubSeq(text, 1, k - 1)>> \o Split(SubSeq(text, k + 1, Len(text)), sep)

\* the white space String.prototype.trim removes
IsWhiteSpace(piece) == piece \in {BLANK, NEWLINE}

RECURSIVE TrimStart(_)
TrimStart(text) ==
    IF text # <<>> /\ IsWhiteSpace(Head(text)) THEN TrimStart(Tail(text)) ELSE text

RECURSIVE TrimEnd(_)
TrimEnd(text) ==
    IF text # <<>> /\ IsWhiteSpace(text[Len(text)])
    THEN TrimEnd(SubSeq(text, 1, Len(text) - 1))
    ELSE text

\* String.prototype.trim
Trim(text) == TrimEnd(TrimStart(text))

\* String.prototype.startsWith with a one-piece prefix
StartsWith(text, mark) == text # <<>> /\ Head(text) = mark

\* String.prototype.replace(mark, ""): the first occurrence goes, wherever
\* it is; a text without the mark is left as it is
Replace(text, mark) ==
    IF \A k \in 1..Len(text) : text[k] # mark
    THEN text
    ELSE LET k == CHOOSE k \in 1..Len(text) :
                      text[k] = mark /\ \A m \in 1..(k - 1) : text[m] # mark
         IN  SubSeq(text, 1, k - 1) \o SubSeq(text, k + 1, Len(text))

\* line 520
IsSsidLine(line) == StartsWith(Trim(line), SSIDMark)

\* line 524
IsSecurityLine(line) == StartsWith(Trim(line), SECURITYMark)

\* `let securityLine` of line 522: undefined until the search assigns it
NoSecurityLine == [js |-> "undefined", line |-> <<>>]

\* lines 523-528: the search from line j on, to the first SECURITY line
RECURSIVE SecurityLineFrom(_, _)
SecurityLineFrom(lines, j) ==
    IF j > Len(lines) THEN NoSecurityLine
    ELSE IF IsSecurityLine(lines[j]) THEN [js |-> "string", line |-> lines[j]]
    ELSE SecurityLineFrom(lines, j + 1)

\* lines 522-528 looked at the next line only
SecurityLineAfter_Adjacent(lines, i) ==
    IF i + 1 > Len(lines) \/ ~IsSecurityLine(lines[i + 1])
    THEN NoSecurityLine
    ELSE [js |-> "string", line |-> lines[i + 1]]

\* lines 522-528: securityLine once the inner loop is over
SecurityLineAfter(lines, i) == SecurityLineFrom(lines, i + 1)

\* line 530: an undefined or empty securityLine is falsy
SecurityOf(securityLine) ==
    IF securityLine.js = "string" /\ securityLine.line # <<>>
    THEN Trim(Replace(securityLine.line, SECURITYMark))
    ELSE <<>>

\* line 532 without the Set
IsNewSsid_NoSet(ssid, uniqueSSIDNames) == ssid # <<>>

\* line 532 without the test of the name
IsNewSsid_KeepsBlank(ssid, uniqueSSIDNames) == ssid \notin uniqueSSIDNames

\* line 532: the empty string is falsy
IsNewSsid(ssid, uniqueSSIDNames) == ssid \notin uniqueSSIDNames /\ ssid # <<>>

\* lines 518-543: the loop from line i on, with the list and the Set so far
RECURSIVE ScanLoop(_, _, _, _)
ScanLoop(lines, i, uniqueSSIDs, uniqueSSIDNames) ==
    IF i > Len(lines) THEN uniqueSSIDs
    ELSE IF ~IsSsidLine(lines[i]) THEN ScanLoop(lines, i + 1, uniqueSSIDs, uniqueSSIDNames)
    ELSE LET ssid     == Trim(Replace(lines[i], SSIDMark))
             security == SecurityOf(SecurityLineAfter(lines, i))
         IN  IF IsNewSsid(ssid, uniqueSSIDNames)
             THEN ScanLoop(lines, i + 1,
                           Append(uniqueSSIDs, [ssid |-> ssid, security |-> security]),
                           uniqueSSIDNames \cup {ssid})
             ELSE ScanLoop(lines, i + 1, uniqueSSIDs, uniqueSSIDNames)

\* lines 513-545
ParseWiFiScanResults(inputString) == ScanLoop(Split(inputString, NEWLINE), 1, <<>>, {})

\* the array a call returned
JsArray(items) == [js |-> "array", items |-> items]

\* a caller is about to hand the text of the lines ls to the function
ScanLocals(ls) == [of |-> "parseWiFiScanResults", inputString |-> JoinLines(ls), given |-> ls]

InitParse == \E ls \in ScanLineLists : InitFrom(UNDEF, ScanLocals(ls), NotFollowed)

\* the call: the function is synchronous, the call is one step
ParseScan ==
    /\ pc = "idle"
    /\ locals.of = "parseWiFiScanResults"
    /\ pc' = "returned"
    /\ op' = "parseWiFiScanResults"
    /\ retval' = JsArray(ParseWiFiScanResults(locals.inputString))
    /\ UNCHANGED <<lastConnectionSSID, activeConnection, waitCaller, probeCaller, inflight, profiles, suspended, bleVars,
                   trace, locals>>
    /\ UNCHANGED <<waitVars, probeVars, callVars, watchVars>>

NextParse == ParseScan

SpecParse == InitParse /\ [][NextParse]_vars

\* ---------------------------------------------------------------------
\* utils.js: executeCommand (lines 36-57) around one promisified exec
\* ---------------------------------------------------------------------
\* what a command writes before it exits: nothing, a word, a word with the
\* line break the tools end their output with, words on two lines
RawOutputs ==
    { <<>>,
      <<NEWLINE>>,
      <<"1">>,
      <<"1", NEWLINE>>,
      <<BLANK, "activated", BLANK, NEWLINE>>,
      <<"Home", NEWLINE, "Eth0", NEWLINE>> }

\* what exec rejects with: a non-zero exit, a shell that cannot be spawned
ExecErrors == {"Error: Command failed", "Error: spawn /bin/sh ENOENT"}

CommandTypes == {NULL, "server connection", "dns"}

\* how the promise of line 38 settles
ExecReplies ==
    [settled : {"resolved"}, stdout : RawOutputs, stderr : RawOutputs, error : {UNDEF}]
    \cup [settled : {"rejected"}, stdout : {<<>>}, stderr : {<<>>}, error : ExecErrors]

\* lines 40-45 without the two trims
TryReturns_Untrimmed(type, reply) ==
    [OkResult(type, reply.stdout) EXCEPT !.stderr = reply.stderr]

\* lines 40-45
TryReturns(type, reply) ==
    [OkResult(type, Trim(reply.stdout)) EXCEPT !.stderr = Trim(reply.stderr)]

\* lines 49-55
CatchReturns(type, error) == [FailResult(type) EXCEPT !.error = error]

\* line 47: logger.logError(error, type || "executeCommand", "utils") of
\* appsignal.js reports the error and returns; what it leaves is the report
LogError(error, type) == Ev("logError", IF type = NULL THEN "executeCommand" ELSE type)

\* a caller is about to run a command whose exec will settle as reply
ExecLocals(type, reply) == [of |-> "executeCommand", type |-> type, reply |-> reply]

InitExec ==
    \E type \in CommandTypes, reply \in ExecReplies : InitFrom(UNDEF, ExecLocals(type, reply), NotFollowed)

\* line 38 suspends the call until exec settles
ExecuteCommand ==
    /\ pc = "idle"
    /\ locals.of = "executeCommand"
    /\ pc' = "L38"
    /\ op' = "executeCommand"
    /\ trace' = <<Ev("exec", locals.type)>>
    /\ UNCHANGED <<lastConnectionSSID, activeConnection, waitCaller, probeCaller, inflight, profiles, suspended, bleVars,
                   retval, locals>>
    /\ UNCHANGED <<waitVars, probeVars, callVars, watchVars>>

\* lines 38-45: exec resolved
ExecResolves ==
    /\ pc = "L38"
    /\ op = "executeCommand"
    /\ locals.reply.settled = "resolved"
    /\ pc' = "returned"
    /\ retval' = TryReturns(locals.type, locals.reply)
    /\ UNCHANGED <<lastConnectionSSID, activeConnection, waitCaller, probeCaller, inflight, profiles, suspended, bleVars,
                   trace, op, locals>>
    /\ UNCHANGED <<waitVars, probeVars, callVars, watchVars>>

\* lines 46-56: exec rejected
ExecRejects ==
    /\ pc = "L38"
    /\ op = "executeCommand"
    /\ locals.reply.settled = "rejected"
    /\ pc' = "returned"
    /\ trace' = Append(trace, LogError(locals.reply.error, locals.type))
    /\ retval' = CatchReturns(locals.type, locals.reply.error)
    /\ UNCHANGED <<lastConnectionSSID, activeConnection, waitCaller, probeCaller, inflight, profiles, suspended, bleVars,
                   op, locals>>
    /\ UNCHANGED <<waitVars, probeVars, callVars, watchVars>>

NextExec ==
    \/ ExecuteCommand
    \/ ExecResolves
    \/ ExecRejects

SpecExec == InitExec /\ [][NextExec]_vars

\* ---------------------------------------------------------------------
\* two callers of connectToNetwork (the "connect_to_network" handler of line
\* 683 and the BLE write handler, bleManager.js:82): each call is suspended
\* at an await between two segments, and the segments of the two calls run
\* in any order
\* ---------------------------------------------------------------------
\* the state of the call whose segments the actions run
RunningCall ==
    [pc |-> pc, data |-> data, path |-> path, waitCaller |-> waitCaller,
     attempts |-> attempts, lastConnectionState |-> lastConnectionState,
     connectionState |-> connectionState, activeConnection |-> activeConnection,
     probeCaller |-> probeCaller, serverAttempts |-> serverAttempts,
     connection |-> connection, retval |-> retval, trace |-> trace, observed |-> observed,
     sawActivating |-> sawActivating, queries |-> queries, sleeps |-> sleeps,
     probes |-> probes, probed |-> probed, onlyZeros |-> onlyZeros,
     atStart |-> atStart, op |-> op, locals |-> locals]

\* the next segment to run belongs to the other caller; a caller that has
\* made no call yet comes in while the first caller's call is in progress
SwitchCall ==
    /\ suspended.pc = "idle" => pc \notin {"idle", "done"}
    /\ suspended # RunningCall
    /\ suspended' = RunningCall
    /\ pc' = suspended.pc
    /\ data' = suspended.data
    /\ path' = suspended.path
    /\ waitCaller' = suspended.waitCaller
    /\ attempts' = suspended.attempts
    /\ lastConnectionState' = suspended.lastConnectionState
    /\ connectionState' = suspended.connectionState
    /\ activeConnection' = suspended.activeConnection
    /\ probeCaller' = suspended.probeCaller
    /\ serverAttempts' = suspended.serverAttempts
    /\ connection' = suspended.connection
    /\ retval' = suspended.retval
    /\ trace' = suspended.trace
    /\ observed' = suspended.observed
    /\ sawActivating' = suspended.sawActivating
    /\ queries' = suspended.queries
    /\ sleeps' = suspended.sleeps
    /\ probes' = suspended.probes
    /\ probed' = suspended.probed
    /\ onlyZeros' = suspended.onlyZeros
    /\ atStart' = suspended.atStart
    /\ op' = suspended.op
    /\ locals' = suspended.locals
    /\ UNCHANGED <<lastConnectionSSID, inflight, profiles, calls>>
    /\ UNCHANGED watchVars
    /\ UNCHANGED bleVars

InitOverlap == InitFrom(UNDEF, NoLocals, Followed)

\* what the two callers ask for and what the commands answer while two calls
\* overlap: WPA requests with a password, a connection that is activated when
\* it is first asked about, a server that answers the first probe; commands
\* can fail
OverlapRequests == {d \in Requests : d.password = "secret123" /\ d.security = "WPA2"}

OverlapStateTexts == {"activated"}

OverlapProbeTexts == {"1"}

NextOverlap ==
    \/ \E d \in OverlapRequests : ConnectToNetwork(d)
    \/ \E ok \in BOOLEAN : DeleteReturns(ok)
    \/ \E r \in ExecOutcomes(ConnectType("wpa"), AddTexts)
              \cup ExecOutcomes(ConnectType("hidden"), AddTexts) : ConnectReturns(r)
    \/ \E r \in ExecOutcomes(NULL, UpTexts) : UpReturns(r)
    \/ \E cs \in ExecOutcomes(NULL, OverlapStateTexts) : StateQueryReturns(cs)
    \/ WaitTimerFires
    \/ \E r \in ExecOutcomes("server connection", OverlapProbeTexts) : ProbeReturns(r)
    \/ ProbeTimerFires
    \/ \E s \in SSIDs : StrayDeleteReturns(s)
    \/ SwitchCall

SpecOverlap == InitOverlap /\ [][NextOverlap]_vars

\* ---------------------------------------------------------------------
\* the "connect_to_network" handler (lines 682-685) and the listeners that
\* forward the notifications of connectToNetwork to the renderer (712-718)
\* ---------------------------------------------------------------------
\* getWebContents().send(channel, payload)
Send(channel, payload) == [ev |-> "send", arg |-> channel, payload |-> payload]

\* line 684: the handler sends the value its await of line 683 gave
AfterConnect(tr, result) == Append(tr, Send("connect_to_network_status", result))

\* the handler of a UI request resumes when connectToNetwork has returned
UiHandlerSends ==
    /\ pc = "done"
    /\ pc' = "handled"
    /\ trace' = AfterConnect(trace, retval)
    /\ UNCHANGED <<lastConnectionSSID, activeConnection, waitCaller, probeCaller, retval,
                   inflight, profiles, suspended, bleVars, op, locals>>
    /\ UNCHANGED <<waitVars, probeVars, callVars, watchVars>>

\* lines 712-714: ipcMain.on("is_connecting") runs inside the emit of line 101
IsConnectingListener(e) ==
    IF e = Ev("emit", "is_connecting") THEN <<Send("is_connecting", NoResult)>> ELSE <<>>

\* lines 716-718: ipcMain.on("connecting_result", (_event, arg)) runs inside
\* the emit of line 121, whose arguments are (null, result)
ConnectingResultListener(e) ==
    IF e.ev = "emit" /\ e.arg = "connecting_result"
    THEN <<Send("connect_to_network_status", e.payload)>>
    ELSE <<>>

\* what the renderer has been sent, in order, by the end of the trace tr
RECURSIVE RendererReceived(_)
RendererReceived(tr) ==
    IF tr = <<>> THEN <<>>
    ELSE (IF Head(tr).ev = "send" THEN <<Head(tr)>>
          ELSE IsConnectingListener(Head(tr)) \o ConnectingResultListener(Head(tr)))
         \o RendererReceived(Tail(tr))

\* requests that come in on the UI channel one after another
NextUi ==
    \/ \E d \in Requests : ConnectToNetwork(d)
    \/ \E ok \in BOOLEAN : DeleteReturns(ok)
    \/ \E r \in ExecOutcomes(ConnectType("open"), AddTexts)
              \cup ExecOutcomes(ConnectType("wpa"), AddTexts)
              \cup ExecOutcomes(ConnectType("hidden"), AddTexts) : ConnectReturns(r)
    \/ \E r \in ExecOutcomes(NULL, UpTexts) : UpReturns(r)
    \/ \E cs \in ExecOutcomes(NULL, StateTexts) : StateQueryReturns(cs)
    \/ WaitTimerFires
    \/ \E r \in ExecOutcomes("server connection", ProbeTexts) : ProbeReturns(r)
    \/ ProbeTimerFires
    \/ \E s \in SSIDs : StrayDeleteReturns(s)
    \/ UiHandlerSends

SpecUi == Init /\ [][NextUi]_vars

(* ---------------- the scan handlers ----------------------------------- *)
(* main.js lines 687-694 for the UI, bleManager.js lines 85-92 for BLE    *)

\* lines of the scan outputs the handlers are given
MaxListedLines == 2

\* what executeCommand returns as stdout of the scan command: the text the
\* command printed, trimmed (utils.js line 44)
ScanOutputs == {Trim(JoinLines(ls)) : ls \in UNION {[1..n -> ScanLinePool] : n \in 1..MaxListedLines}}

\* bleManager.js lines 124-126: send(key, data) emits "notify" to the bridge
BleSend(key, payload) == [ev |-> "ble_send", arg |-> key, payload |-> payload]

\* the constants of a scan handler: who asked, and what the scan returned
ScanHandlerLocals(asker) == [of |-> "scan", asker |-> asker, result |-> NoResult]

\* a "search_after_networks" request: line 688 enters scanAvailableNetworks,
\* whose line 28 issues the scan command
SearchAfterNetworks ==
    /\ OpStartWith("L688", <<Ev("issue_scan", NULL)>>)
    /\ op' = "search_after_networks"
    /\ locals' = ScanHandlerLocals("ui")

\* a BLE write of type RECEIVE_SCAN_AVAILABLE_NETWORKS: bleManager.js line 86
BleScanRequest ==
    /\ OpStartWith("L688", <<Ev("issue_scan", NULL)>>)
    /\ op' = "RECEIVE_SCAN_AVAILABLE_NETWORKS"
    /\ locals' = ScanHandlerLocals("ble")

\* the handlers sending an empty list when the scan failed
ListMessages_EmptyOnFailure(asker, result) ==
    LET list == JsArray(IF result.success THEN ParseWiFiScanResults(result.stdout) ELSE <<>>)
    IN  IF asker = "ui" THEN <<Send("list_of_networks", list)>>
        ELSE <<BleSend("SEND_AVAILABLE_NETWORK_LIST", list)>>

\* lines 690-693 and bleManager.js lines 88-91: if (result.success) the list
\* parsed from result.stdout.toString() is sent (stdout is a string, which
\* toString leaves as it is)
ListMessages(asker, result) ==
    IF result.success
    THEN LET list == JsArray(ParseWiFiScanResults(result.stdout))
         IN  IF asker = "ui" THEN <<Send("list_of_networks", list)>>
             ELSE <<BleSend("SEND_AVAILABLE_NETWORK_LIST", list)>>
    ELSE <<>>

\* the scan command returns r to the handler, which ends
ScanReturns(r) ==
    /\ pc = "L688"
    /\ pc' = "handled"
    /\ locals' = [locals EXCEPT !.result = r]
    /\ trace' = trace \o <<Returned("scan", r)>> \o ListMessages(locals.asker, r)
    /\ UNCHANGED <<lastConnectionSSID, retval>>
    /\ OpStep

\* scan requests from the UI and over BLE, one after another
NextScan ==
    \/ SearchAfterNetworks
    \/ BleScanRequest
    \/ \E r \in ExecOutcomes(NULL, ScanOutputs) : ScanReturns(r)

SpecScan == Init /\ [][NextScan]_vars

(* ---------------- BLE status polling (bleManager.js lines 45-62, 117-122) *)

\* what the polling never touches
bleRest ==
    <<lastConnectionSSID, pc, data, path, waitCaller, activeConnection, probeCaller,
      retval, inflight, profiles, suspended, trace, atStart, calls, op, locals, waitVars,
      probeVars, watchVars>>

\* the status timers that still fire
ActiveStatusTimers == {t \in 1..Len(statusTimers) : statusTimers[t] = "active"}

\* bleManager.js line 46: setInterval creates a timer, whatever the handle
\* holds
AcceptedTimers(handle, ts) == Append(ts, "active")

\* "device-accepted": line 46 stores the handle of the new timer
DeviceAccepted ==
    /\ Len(statusTimers) < MaxStarts
    /\ statusTimers' = AcceptedTimers(networkStatusInterval, statusTimers)
    /\ networkStatusInterval' = TimerHandle(Len(statusTimers) + 1)
    /\ UNCHANGED <<statusFired, statusTicks, statusSent>>
    /\ UNCHANGED bleRest

\* stopNetworkStatusInterval, bleManager.js lines 117-122
StopStatusSegment ==
    IF networkStatusInterval.js = "object"
    THEN /\ statusTimers' = [statusTimers EXCEPT ![networkStatusInterval.id] = "cleared"]
         /\ networkStatusInterval' = NullHandle
    ELSE UNCHANGED <<statusTimers, networkStatusInterval>>

\* "device-disconnected": line 60 stops the polling, line 61 asks the bridge
\* to advertise again
DeviceDisconnected ==
    /\ StopStatusSegment
    /\ UNCHANGED <<statusFired, statusTicks, statusSent>>
    /\ UNCHANGED bleRest

\* a write of type RECEIVE_FINISH_SETUP by the accepted device, whose polling
\* runs: lines 102-104 store the setting, answer and stop the polling
FinishSetup ==
    /\ networkStatusInterval.js = "object"
    /\ StopStatusSegment
    /\ statusSent' = Append(statusSent, BleSend("SEND_FINISHED_SETUP", "FINISH_SETUP"))
    /\ UNCHANGED <<statusFired, statusTicks>>
    /\ UNCHANGED bleRest

\* 3 s have passed for the status timer t: its callback is entered and
\* awaits checkNetworkConnection (line 47)
StatusTimerFires(t) ==
    /\ t \in ActiveStatusTimers
    /\ statusFired < MaxTicks
    /\ statusFired' = statusFired + 1
    /\ statusTicks' = statusTicks (+) SetToBag({t})
    /\ UNCHANGED <<networkStatusInterval, statusTimers, statusSent>>
    /\ UNCHANGED bleRest

\* what checkNetworkConnection returns to a callback (lines 376-389)
StatusResults ==
    {EthernetValue(OkResult("server connection", "1")),
     WifiValue(OkResult("server connection", "1"), "Home"),
     NoConnection}

\* lines 49-55: the message for a result, if any
StatusMessages(result) ==
    IF result.success /\ result.stdout = "1"
    THEN IF result.connectionType = "Ethernet"
         THEN <<BleSend("SEND_NETWORK_STATUS", [s |-> TRUE, t |-> "e"])>>
         ELSE IF result.connectionType = "Wi-Fi"
              THEN <<BleSend("SEND_NETWORK_STATUS",
                             [s |-> TRUE, t |-> "w", name |-> result.connectionName])>>
              ELSE <<>>
    ELSE <<>>

\* checkNetworkConnection returns result to a callback of timer t
StatusCheckReturns(t, result) ==
    /\ t \in BagToSet(statusTicks)
    /\ statusTicks' = statusTicks (-) SetToBag({t})
    /\ statusSent' = statusSent \o StatusMessages(result)
    /\ UNCHANGED <<networkStatusInterval, statusTimers, statusFired>>
    /\ UNCHANGED bleRest

\* the events of the BLE bridge in any order
NextBle ==
    \/ DeviceAccepted
    \/ DeviceDisconnected
    \/ FinishSetup
    \/ \E t \in 1..MaxStarts : StatusTimerFires(t)
    \/ \E t \in 1..MaxStarts : \E result \in StatusResults : StatusCheckReturns(t, result)

SpecBle == Init /\ [][NextBle]_vars

(* ---------------- the "connect_to_dns" handler (lines 764-771) --------- *)

\* what line 61 prints: the UUID of the active connection, or nothing when
\* no connection is active (grep selects no line and head ends the pipe
\* with status 0)
UuidTexts == {"uuid-1", ""}

\* the setting store.set("dns", dns) of line 768 wrote
StoreSet(key) == Ev("store_set", key)

\* a "connect_to_dns" request while no other handler is running: line 765
\* sends "dns_registerering", line 766 enters addDNS up to the await of
\* line 422
ConnectToDns ==
    /\ pc # "returned"
    /\ OpStartWith("L422", <<Send("dns_registerering", JsUndefined), Ev("issue_uuid", NULL)>>)
    /\ op' = "connect_to_dns"
    /\ locals' = AddDnsLocals

\* lines 767-770 for the value addDNS returned: reading .success of
\* undefined throws a TypeError, which ends the handler
AfterAddDns(tr, result) ==
    tr \o (IF result.success THEN <<StoreSet("dns")>> ELSE <<>>)
       \o <<Send("dns_registred", JsBool(result.success))>>

\* addDNS has returned to the handler: lines 767-770
DnsHandlerResumes ==
    /\ pc = "returned"
    /\ op = "connect_to_dns"
    /\ IF retval.js = "undefined"
       THEN /\ pc' = "thrown"
            /\ trace' = trace
       ELSE /\ pc' = "handled"
            /\ trace' = AfterAddDns(trace, retval)
    /\ UNCHANGED <<lastConnectionSSID, retval, locals>>
    /\ OpStep

\* "connect_to_dns" requests one after another, with every outcome of every
\* command of addDNS
NextDns ==
    \/ ConnectToDns
    \/ \E r \in ExecOutcomes(NULL, UuidTexts) : UuidReturns(r)
    \/ \E r \in ExecOutcomes(NULL, {""}) : ModifyReturns(r)
    \/ \E r \in ExecOutcomes(NULL, {""}) : DisableReturns(r)
    \/ \E r \in ExecOutcomes(NULL, {""}) : CycleReturns(r)
    \/ DnsHandlerResumes

SpecDns == InitOps /\ [][NextDns]_vars

\* every command returns
FairSpecDns == SpecDns /\ WF_vars(NextDns)

(* ---------------- every operation that could write the slot ----------- *)

\* the watch after it was started and stopped again and again, every tick
\* having ended without a notification
SpentWatch ==
    [handle |-> NullHandle, timers |-> [t \in 1..MaxStarts |-> "cleared"], fired |-> MaxTicks]

\* the watch before its last start: the earlier ones were stopped, and one
\* tick is left
LastWatch ==
    [handle |-> NullHandle, timers |-> [t \in 1..(MaxStarts - 1) |-> "cleared"],
     fired |-> MaxTicks - 1]

\* either the last call of a series begins while the watch is over, with any
\* value the slot can hold, or the last watch begins when the calls are over
InitSlot ==
    \E last \in SSIDs \cup {NULL, UNDEF} :
        \/ InitState(last, NoLocals, NotFollowed, MaxCalls - 1, [s \in SSIDs |-> 0], SpentWatch)
        \/ InitState(last, NoLocals, NotFollowed, MaxCalls, [s \in SSIDs |-> 0], LastWatch)

\* the exported functions, the scan handler and the watch
NextSlot ==
    \/ \E d \in Requests : ConnectToNetwork(d)
    \/ \E ok \in BOOLEAN : DeleteReturns(ok)
    \/ \E r \in ExecOutcomes(ConnectType("open"), AddTexts)
              \cup ExecOutcomes(ConnectType("wpa"), AddTexts)
              \cup ExecOutcomes(ConnectType("hidden"), AddTexts) : ConnectReturns(r)
    \/ \E r \in ExecOutcomes(NULL, UpTexts) : UpReturns(r)
    \/ \E cs \in ExecOutcomes(NULL, StateTexts) : StateQueryReturns(cs)
    \/ WaitTimerFires
    \/ \E r \in ExecOutcomes("server connection", ProbeTexts) : ProbeReturns(r)
    \/ ProbeTimerFires
    \/ \E s \in SSIDs : StrayDeleteReturns(s)
    \/ \E s \in SSIDs : DeleteConnectionBySSID(s)
    \/ \E r \in ExecOutcomes("delete ssid", {""}) : DirectDeleteReturns(r)
    \/ ResetAllConnections
    \/ \E r \in ExecOutcomes("Delete all connections", Listings) : ListReturns(r)
    \/ \E r \in ExecOutcomes("delete ssid", {""}) : ResetDeleteReturns(r)
    \/ \E r \in ExecOutcomes(NULL, {""}) : ResetDnsReturns(r)
    \/ \E r \in ExecOutcomes(NULL, {""}) : ResetAutoDnsReturns(r)
    \/ AddDNS
    \/ \E r \in ExecOutcomes(NULL, UuidTexts) : UuidReturns(r)
    \/ \E r \in ExecOutcomes(NULL, {""}) : ModifyReturns(r)
    \/ \E r \in ExecOutcomes(NULL, {""}) : DisableReturns(r)
    \/ \E r \in ExecOutcomes(NULL, {""}) : CycleReturns(r)
    \/ CheckNetworkConnection
    \/ \E r \in ExecOutcomes(NULL, ProbeTexts) : EthernetStatusReturns(r)
    \/ \E r \in ExecOutcomes(NULL, ProbeTexts) : WifiStatusReturns(r)
    \/ \E r \in ExecOutcomes(NULL, SSIDs) : ActiveSsidReturns(r)
    \/ SearchAfterNetworks
    \/ \E r \in ExecOutcomes(NULL, ScanOutputs) : ScanReturns(r)
    \/ CheckEthernetConnectionInterval
    \/ StopEthernetInterval
    \/ \E t \in 1..MaxStarts : TimerFires(t)
    \/ \E k \in TickStates : \E r \in ExecOutcomes(NULL, ProbeTexts) : TickStatusReturns(k, r)
    \/ \E k \in TickStates : \E r \in ExecOutcomes("server connection", ProbeTexts) :
           TickProbeReturns(k, r)
    \/ \E k \in TickStates : TickSleepEnds(k)

SpecSlot == InitSlot /\ [][NextSlot]_vars

TypeOK ==
    /\ lastConnectionSSID \in SSIDs \cup {NULL, UNDEF}
    /\ profiles \in [on : BOOLEAN, existing : SUBSET SSIDs]
    /\ pc \in {"idle", "L105", "connect", "L206", "L244", "sleep", "L293", "L299", "done", "handled", "returned",
              "L312", "L323", "L333", "L336", "L337", "L348", "L363", "L45", "L688",
              "L422", "L426", "L428", "L431", "thrown"}
    /\ attempts \in 0..MaxStateAttempts
    /\ serverAttempts \in 0..MaxServerAttempts

(* ======================= properties ======================= *)

IsConnecting == Ev("emit", "is_connecting")

IsIssue(e) ==
    e.ev \in {"issue_delete", "issue_open", "issue_wpa", "issue_hidden", "issue_up",
              "issue_query", "issue_probe"}

IsConnectIssue(e) == e.ev \in {"issue_open", "issue_wpa", "issue_hidden"}

\* positions of the trace that hold a delete command for s
DeletesOf(s) == {i \in 1..Len(trace) : trace[i] = Ev("issue_delete", s)}

\* positions of the trace that hold the connect / add command of the call
ConnectIssues == {i \in 1..Len(trace) : IsConnectIssue(trace[i])}

\* the request of the end-to-end scenarios: WPA, ssid "Home", a password, not hidden
HomeRequest ==
    /\ data.ssid = "Home"
    /\ data.password = "secret123"
    /\ data.security = "WPA2"
    /\ data.hidden = FALSE

\* C1: in every run of connectToNetwork the "is_connecting" notification
\* comes before the first command of that call, the delete of a previously
\* recorded SSID included.
C1_EmitBeforeFirstCommand ==
    /\ \A i \in 1..Len(trace) :
          IsIssue(trace[i]) => \E j \in 1..(i - 1) : trace[j] = IsConnecting
    /\ (queries > 0 \/ probes > 0) => (trace # <<>> /\ trace[1] = IsConnecting)

\* a call that began with a recorded SSID has issued the delete, after the notification
C1_Witness ==
    /\ pc = "L105"
    /\ Len(trace) = 2
    /\ trace[1] = IsConnecting
    /\ trace[2] = Ev("issue_delete", lastConnectionSSID)

\* C2: when the call begins with lastConnectionSSID = X (non-null), a delete
\* for X is issued and has returned before the connect / add command for the
\* new SSID is issued, and that command is issued whether the delete
\* succeeded or failed.
C2_DeleteBeforeConnect ==
    (pc \notin {"idle", "returned"} /\ atStart.last \in SSIDs) =>
        /\ Len(trace) >= 2
        /\ trace[2] = Ev("issue_delete", atStart.last)
        /\ pc = "L105" => ConnectIssues = {}
        /\ pc # "L105" =>
              /\ Len(trace) >= 4
              /\ trace[3] \in {Ev("delete_ok", atStart.last), Ev("delete_failed", atStart.last)}
              /\ IsConnectIssue(trace[4])
              /\ trace[4].arg = data.ssid
              /\ ConnectIssues = {4}

\* the delete of "OldNet" failed and the command for "Home" was issued all the same
C2_Witness ==
    /\ pc = "connect"
    /\ atStart.last = "OldNet"
    /\ data.ssid = "Home"
    /\ trace[3] = Ev("delete_failed", "OldNet")
    /\ IsConnectIssue(trace[4])

\* the path the dispatch policy names for a request
PolicyPath(d) ==
    IF d.hidden THEN "hidden"
    ELSE IF d.security \in {"WPA", "WPA2"} /\ d.password \notin {"", UNDEF} THEN "wpa"
    ELSE "open"

\* C3: each call dispatches to exactly one path: hidden flag set -> hidden
\* path (even with WPA security); else WPA security and a non-empty password
\* -> WPA path; else (WPA with an empty or missing password included) -> open path.
C3_DispatchPrecedence ==
    (pc \notin {"idle", "L105", "returned"}) =>
        /\ path = PolicyPath(data)
        /\ Cardinality(ConnectIssues) = 1
        /\ \A i \in ConnectIssues : trace[i] = Ev("issue_" \o PolicyPath(data), data.ssid)

\* a hidden request with WPA security and a password went to the hidden path
C3_Witness ==
    /\ pc = "connect"
    /\ data.hidden
    /\ data.security = "WPA2"
    /\ data.password = "secret123"
    /\ path = "hidden"

\* the scenario of C4 has run to its return: add succeeded, the state query
\* reported activated and the probe returned "1"
C4_Scenario ==
    /\ pc = "done"
    /\ HomeRequest
    /\ activeConnection.js = "object"
    /\ activeConnection.success
    /\ activeConnection.stdout = "activated"
    /\ probed.js = "object"
    /\ probed.success
    /\ probed.stdout = "1"

\* C4: a WPA request for "Home" whose add command succeeds, whose state
\* query reports activated and whose probe returns "1" returns an outcome
\* with success = true, and lastConnectionSSID is "Home" when it returns.
C4_HomeSucceeds ==
    [][(pc # "done" /\ C4_Scenario') =>
          /\ retval'.js = "object"
          /\ retval'.success = TRUE
          /\ lastConnectionSSID' = "Home"]_vars

\* the same holds of every call that began with no unawaited delete in flight
HomeSucceedsWhenQuiescent ==
    [][(pc # "done" /\ C4_Scenario' /\ atStart.inflight = 0) =>
          /\ retval'.js = "object"
          /\ retval'.success = TRUE
          /\ lastConnectionSSID' = "Home"]_vars

\* the scenario of C5 has run to its return: add and activation succeeded
\* and every probe returned "0"
C5_Scenario ==
    /\ pc = "done"
    /\ HomeRequest
    /\ activeConnection.js = "object"
    /\ activeConnection.success
    /\ activeConnection.stdout = "activated"
    /\ probed.js = "object"
    /\ probed.success
    /\ probed.stdout = "0"
    /\ onlyZeros

Observed(needle) ==
    /\ observed.js = "object"
    /\ observed.success
    /\ Includes(observed.stdout, needle)

\* a state query failed or returned a text with none of the three state words
ObservedOther ==
    /\ observed.js = "object"
    /\ ~Observed("activated")
    /\ ~Observed("activating")
    /\ ~Observed("deactivated")

\* C6: if the first observed connection state text contains "deactivated",
\* waitForActiveConnection fails at once: success = false after exactly one
\* state query.
C6_DeactivatedFailsAtOnce ==
    (queries = 1 /\ Observed("deactivated")) =>
        /\ pc = "returned"
        /\ retval.success = FALSE
        /\ sleeps = 0

\* C7: once an activating state has been observed, the first later
\* observation that is neither activated, activating nor deactivated (a
\* failed query included) ends the call at once with success = false and
\* type "802-11-wireless-security.psk".
C7_RegressionIsPskFailure ==
    (sawActivating /\ ObservedOther) =>
        /\ pc = "returned"
        /\ retval.js = "object"
        /\ retval.success = FALSE
        /\ retval.type = "802-11-wireless-security.psk"
        /\ sleeps = queries - 1

\* two non-terminal observations, then "unknown" after activating: the
\* PSK-tagged failure after three queries
C7_Witness ==
    /\ pc = "returned"
    /\ queries = 3
    /\ sleeps = 2
    /\ sawActivating
    /\ observed = OkResult(NULL, "unknown")
    /\ retval.success = FALSE
    /\ retval.type = "802-11-wireless-security.psk"

\* C8: if the first observed state is the activated state, the call returns
\* a success result after exactly one state query, with no sleep and no
\* further query.
C8_ActivatedSucceedsAtOnce ==
    (Observed("activated") /\ ~Observed("deactivated")) =>
        /\ pc = "returned"
        /\ retval = observed
        /\ retval.success = TRUE
        /\ sleeps = queries - 1
        /\ queries = 1 => sleeps = 0

\* the first query returned "activated" and the call has returned
C8_Witness ==
    /\ pc = "returned"
    /\ queries = 1
    /\ sleeps = 0
    /\ observed = OkResult(NULL, "activated")
    /\ retval.success

\* C9: waitForActiveConnection always terminates and issues at most 75
\* state queries; when all 75 observations are non-terminal it returns
\* success = false with stderr "Exceeded maximum attempts. Operation failed.".
C9_WaitTerminates ==
    /\ [](queries <= 75)
    /\ []((pc = "returned" /\ sleeps = 75) =>
            /\ queries = 75
            /\ retval.success = FALSE
            /\ retval.stderr = "Exceeded maximum attempts. Operation failed.")
    /\ []((pc = "returned" /\ retval.stderr # "Exceeded maximum attempts. Operation failed.") => sleeps < 75)
    /\ (pc = "L244" ~> pc = "returned")

\* 75 non-terminal observations and the failure that follows them
C9_Witness ==
    /\ pc = "returned"
    /\ queries = 75
    /\ sleeps = 75
    /\ retval.success = FALSE
    /\ retval.stderr = "Exceeded maximum attempts. Operation failed."

\* C10: attemptServerConnection issues at most 20 probes and returns at the
\* first probe whose result is success with stdout exactly "1", issuing no
\* probe after it; 19 "0" results followed by one "1" return success on the
\* 20th probe.
C10_ProbesStopAtFirstOne ==
    /\ probes <= 20
    /\ (probed.js = "object" /\ probed.success /\ probed.stdout = "1") =>
          /\ pc = "returned"
          /\ retval = probed
          /\ probes = serverAttempts + 1
    /\ pc = "L299" => probes = serverAttempts

\* 19 probes returned "0", the 20th returned "1" and the call returned it
C10_Witness ==
    /\ pc = "returned"
    /\ probes = 20
    /\ onlyZeros
    /\ probed = OkResult("server connection", "1")
    /\ retval = probed
    /\ retval.success

(* ---------------- failures of the connect flow --------------------------- *)

\* attemptServerConnection called by itself has returned after probes that
\* all ran and all printed "0"
C11_Scenario ==
    /\ pc = "returned"
    /\ probeCaller = "direct"
    /\ onlyZeros
    /\ probed = OkResult("server connection", "0")

Entries(kinds) == {i \in 1..Len(trace) : trace[i].ev \in kinds}

\* a call on the open or the WPA path has returned and its connect command
\* had failed
C12_Scenario ==
    /\ pc = "done"
    /\ path \in {"open", "wpa"}
    /\ Entries({"connect_failed"}) # {}

\* C12: on the open and WPA paths, when the connect command fails, the
\* failed result is returned unchanged and after the connect command no
\* state query, no server probe and no delete command is issued.
C12_ConnectFailureReturnedAsIs ==
    C12_Scenario =>
        /\ retval = FailResult(ConnectType(path))
        /\ Entries({"issue_query", "issue_probe"}) = {}
        /\ \A i \in Entries({"issue_delete"}) : \A j \in ConnectIssues : i < j
        /\ activeConnection = NoResult
        /\ probed = NoResult

\* a WPA call that began with a recorded connection deleted it, then its
\* connect command failed and the call returned that failure
C12_Witness ==
    /\ C12_Scenario
    /\ path = "wpa"
    /\ Entries({"issue_delete"}) # {}
    /\ retval = FailResult("WPA network connection")

\* a call on the open or the WPA path has returned, its connect command had
\* succeeded and waitForActiveConnection returned a failure
C13_Scenario ==
    /\ pc = "done"
    /\ path \in {"open", "wpa"}
    /\ Entries({"connect_ok"}) # {}
    /\ activeConnection # NoResult
    /\ ~activeConnection.success

\* C13: when the connect command succeeded and waitForActiveConnection
\* fails, exactly one delete command for the SSID is issued after the
\* connect command, no server probe is issued, and the value returned is
\* the failure waitForActiveConnection returned.
C13_WaitFailureRollsBack ==
    C13_Scenario =>
        /\ retval = activeConnection
        /\ Entries({"issue_probe"}) = {}
        /\ probed = NoResult
        /\ Cardinality({i \in DeletesOf(data.ssid) : \A j \in ConnectIssues : j < i}) = 1
        /\ trace[Len(trace) - 1] = Ev("issue_delete", data.ssid)

\* the wait ended with the PSK-tagged failure and the call returned it
C13_Witness ==
    /\ C13_Scenario
    /\ retval.type = PSK
    /\ retval.success = FALSE
    /\ DeletesOf(data.ssid) # {}
(* ---------------- operations called on their own ------------------------ *)

\* C14: deleteConnectionBySSID leaves the slot as it was until the delete
\* command completes, sets it to null when the command completes whether it
\* succeeded or failed, and returns the command's success flag.
C14_DeleteClearsSlot ==
    op = "deleteConnectionBySSID" =>
        /\ pc = "L312" => lastConnectionSSID = locals.before
        /\ pc = "returned" =>
              /\ lastConnectionSSID = NULL
              /\ retval = JsBool(locals.deleteResult.success)
              /\ (retval.js = "true") = locals.deleteResult.success

\* the delete command failed while "Home" was recorded: the slot is null and
\* the call returned false
C14_Witness ==
    /\ op = "deleteConnectionBySSID"
    /\ pc = "returned"
    /\ locals.before = "Home"
    /\ locals.deleteResult = FailResult("delete ssid")
    /\ lastConnectionSSID = NULL
    /\ retval = JsFalse

\* a value that is a result object reporting failure
IsFailureObject(v) == v.js = "object" /\ v.success = FALSE

\* C15: no operation throws; when the profile listing of
\* resetAllConnections or the UUID lookup of addDNS fails, the operation
\* completes and returns a result object with success = false.
C15_NoOperationThrows ==
    /\ pc # "thrown"
    /\ (pc = "returned" /\ op = "addDNS" /\ Entries({"uuid_failed"}) # {}) =>
          IsFailureObject(retval)

\* a value whose error is neither null nor undefined
HasError(v) == v.error \notin {NULL, UNDEF}

\* the call that has just returned is one of the four functions C16 names
\* next to executeCommand
C16_Returned ==
    /\ pc \in {"done", "returned"}
    /\ op \in {"waitForActiveConnection", "attemptServerConnection", "connectToNetwork",
               "checkNetworkConnection"}

\* C16 as stated: every result with success = false has a non-null error,
\* for what executeCommand returned to the polling loops and for what the
\* four functions return.
C16_Original ==
    /\ IsFailureObject(observed) => HasError(observed)
    /\ IsFailureObject(probed) => HasError(probed)
    /\ (C16_Returned /\ IsFailureObject(retval)) => HasError(retval)

\* C16: every failed result of executeCommand, attemptServerConnection and
\* checkNetworkConnection has a non-null error; a failed result of
\* waitForActiveConnection or connectToNetwork has one too unless it is the
\* result of a state query that succeeded and was then marked as failed,
\* which has no error and carries one of the two messages in stderr.
C16_FailureHasErrorOrMessage ==
    /\ IsFailureObject(observed) => HasError(observed)
    /\ IsFailureObject(probed) => HasError(probed)
    /\ (C16_Returned /\ IsFailureObject(retval)) =>
          IF op \in {"attemptServerConnection", "checkNetworkConnection"}
          THEN HasError(retval)
          ELSE \/ HasError(retval)
               \/ /\ retval.error = UNDEF
                  /\ retval.stderr \in {RegressedMsg, ExceededMsg}
                  /\ retval.stdout \in StateTexts

\* connectToNetwork returned the failure made of a state query that had
\* succeeded: success = false and no error
C16_Witness ==
    /\ pc = "done"
    /\ op = "connectToNetwork"
    /\ IsFailureObject(retval)
    /\ retval.error = UNDEF
    /\ retval.stderr = ExceededMsg

\* a command of addDNS has been issued
IsDnsIssue(e) == e.ev \in {"issue_uuid", "issue_dns", "issue_autodns", "issue_cycle"}

\* the steps of addDNS in the order of lines 422, 426, 428 and 431
DnsSteps == <<"issue_uuid", "issue_dns", "issue_autodns", "issue_cycle">>

\* C17: the commands of addDNS are issued in the order resolve UUID, set
\* static DNS, disable automatic DNS, cycle profile; after a command that
\* failed no further command is issued, and addDNS returns the result of the
\* command that failed.
C17_AddDnsShortCircuits ==
    op = "addDNS" =>
        /\ LET issued == SelectSeq(trace, IsDnsIssue)
           IN  \A k \in 1..Len(issued) : issued[k].ev = DnsSteps[k]
        /\ \A i \in Entries({"uuid_failed", "dns_failed", "autodns_failed", "cycle_failed"}) :
              \A j \in 1..Len(trace) : IsDnsIssue(trace[j]) => j < i
        /\ (pc = "returned" /\ locals.failed # NoResult) => retval = locals.failed

\* checkNetworkConnection has returned
C18_Returned == pc = "returned" /\ op = "checkNetworkConnection"

\* the link of that kind was reported connected and the server probe that
\* followed succeeded
C18_Up(link, result) == IsOne(link) /\ IsOne(result)

\* C18: checkNetworkConnection issues the ethernet status command first.
\* When the ethernet link is connected and its server probe succeeds it
\* returns that probe's result with connectionType "Ethernet" and never
\* issues the Wi-Fi status command; otherwise, when Wi-Fi is connected and
\* its probe succeeds, it returns that probe's result with connectionType
\* "Wi-Fi" and connectionName the standard output of the active-SSID
\* command; otherwise it returns success = false with the error
\* "No active network connection".
C18_EthernetBeforeWifi ==
    /\ op = "checkNetworkConnection" =>
          /\ trace[1] = Ev("issue_ethernet_status", NULL)
          /\ Entries({"issue_wifi_status"}) # {} => ~IsOne(locals.ethernetResult)
    /\ C18_Returned =>
          LET eth == C18_Up(locals.ethernetLink, locals.ethernetResult)
              wifi == C18_Up(locals.wifiLink, locals.wifiResult)
          IN  /\ eth =>
                    /\ retval = EthernetValue(locals.ethernetResult)
                    /\ retval.success /\ retval.stdout = "1"
                    /\ Entries({"issue_wifi_status"}) = {}
              /\ (~eth /\ wifi) =>
                    /\ retval = WifiValue(locals.wifiResult, locals.connectionName.stdout)
                    /\ retval.success /\ retval.stdout = "1"
                    /\ locals.connectionName.js = "object"
              /\ (~eth /\ ~wifi) =>
                    /\ retval = NoConnection
                    /\ Entries({"issue_active_ssid"}) = {}

\* the ethernet link was up but its twenty probes printed "0"; Wi-Fi was up,
\* its probe succeeded and the active SSID is "Home"
C18_Witness ==
    /\ C18_Returned
    /\ IsOne(locals.ethernetLink)
    /\ locals.ethernetResult = OkResult("server connection", "0")
    /\ retval = WifiValue(OkResult("server connection", "1"), "Home")

(* ---------------- the ethernet watch ------------------------------------- *)

\* C19: at most one watch timer is active at any time, and once
\* stopEthernetInterval has run (the handle is null) no timer is active.
C19_AtMostOneTimer ==
    /\ Cardinality(ActiveTimers) <= 1
    /\ ethernetInterval = NullHandle => ActiveTimers = {}

\* C20: while one watch has been started, "ethernet_status" is emitted at
\* most once for it, and once it has been emitted the timer is cancelled.
C20_NotifiedOnce ==
    Len(timers) = 1 =>
        /\ emitted[1] <= 1
        /\ emitted[1] = 1 => (timers[1] = "cleared" /\ ethernetInterval = NullHandle)

(* ---------------- resetAllConnections ------------------------------------ *)

\* the type nmcli printed for the profile of a line: the text after the last colon
ListedType(line) == IF line = <<>> THEN UNDEF ELSE line[Len(line)]

\* the commands C21 expects for one listed profile, by kind
ExpectedFor(line) ==
    CASE ListedType(line) = WIFI -> <<"issue_delete">>
      [] ListedType(line) = ETHERNET -> <<"issue_dns", "issue_autodns">>
      [] OTHER -> <<>>

\* the commands C21 expects for a listing, in the order of its lines
RECURSIVE ExpectedCommands(_)
ExpectedCommands(lines) ==
    IF lines = <<>> THEN <<>>
    ELSE ExpectedFor(Head(lines)) \o ExpectedCommands(Tail(lines))

\* a command of resetAllConnections after the listing has been issued
IsResetIssue(e) == e.ev \in {"issue_delete", "issue_dns", "issue_autodns"}

\* the kinds of the commands resetAllConnections has issued after the listing
IssuedKinds ==
    LET issued == SelectSeq(trace, IsResetIssue)
    IN  [k \in 1..Len(issued) |-> issued[k].ev]

\* resetAllConnections has returned
C21_Returned == pc = "returned" /\ op = "resetAllConnections"

\* C21: when resetAllConnections has returned, the commands it issued after
\* the listing are, line by line, one delete for each profile listed with
\* type 802-11-wireless, the two DNS commands for each profile listed with
\* type 802-3-ethernet, and none for any other profile.
C21_ResetCommandsPerProfile ==
    C21_Returned => IssuedKinds = ExpectedCommands(locals.lines)

\* the same for listings in which no profile name holds a colon, with the
\* names of the commands: this holds, and it covers the list of the example
ResetCommandsWithoutColonNames ==
    (C21_Returned /\ \A k \in 1..Len(locals.lines) : Len(locals.lines[k]) <= 3) =>
        /\ IssuedKinds = ExpectedCommands(locals.lines)
        /\ locals.lines = << <<"Home", ":", WIFI>>, <<"Eth0", ":", ETHERNET>> >> =>
              [k \in 1..3 |-> SelectSeq(trace, IsResetIssue)[k]]
                 = <<Ev("issue_delete", "Home"), Ev("issue_dns", "Eth0"), Ev("issue_autodns", "Eth0")>>

(* ---------------- the hidden-network path -------------------------------- *)

\* the running or last call took the hidden path and its add command has returned
C22_Hidden == op = "connectToNetwork" /\ path = "hidden" /\ locals.of = "hidden"

\* the output of the add command affirms the addition
C22_Added == locals.added.success /\ Includes(locals.added.stdout, "successfully added")

\* the output of the bring-up command affirms the activation
C22_Activated ==
    locals.upped.success /\ Includes(locals.upped.stdout, "Connection successfully activated")

\* delete commands for the SSID issued after the add command
C22_Rollbacks == {i \in DeletesOf(data.ssid) : \E j \in ConnectIssues : j < i}

\* what C22 says of the order of the steps and of a negative bring-up or probe
C22_Common ==
    /\ Entries({"issue_up"}) # {} => C22_Added
    /\ Entries({"issue_probe"}) # {} => (C22_Added /\ C22_Activated)
    /\ (pc = "done" /\ C22_Added /\ locals.upped # NoResult /\ ~C22_Activated) =>
          /\ retval = locals.upped
          /\ Cardinality(C22_Rollbacks) = 1
          /\ Entries({"issue_probe"}) = {}
    /\ (pc = "done" /\ probed # NoResult /\ ~IsOne(probed)) =>
          /\ retval = probed
          /\ Cardinality(C22_Rollbacks) = 1

ResultEmits == {i \in 1..Len(trace) : trace[i].ev = "emit" /\ trace[i].arg = "connecting_result"}

\* C23: a connectToNetwork call that is still running has not emitted
\* "connecting_result"; a call that has returned has emitted it exactly
\* once, as the last thing it did and after every command it issued, and the
\* value emitted is the value returned.
C23_ResultEmittedOnce ==
    op = "connectToNetwork" =>
        /\ pc # "done" => ResultEmits = {}
        /\ pc = "done" =>
              /\ ResultEmits = {Len(trace)}
              /\ trace[Len(trace)].payload = retval
              /\ ConnectIssues # {}
              /\ \A i \in 1..Len(trace) : IsIssue(trace[i]) => i < Len(trace)

\* a call returned the PSK-tagged failure and emitted it
C23_Witness ==
    /\ op = "connectToNetwork"
    /\ pc = "done"
    /\ retval.type = PSK
    /\ trace[Len(trace)] = EmitResult(retval)

\* ---------------------------------------------------------------------
\* parseWiFiScanResults: what a scan output says, read off its lines
\* ---------------------------------------------------------------------
\* the line is the field `mark`: blanks at most come before the marker
HasField(line, mark) ==
    \E k \in 1..Len(line) : line[k] = mark /\ \A m \in 1..(k - 1) : line[m] = BLANK

\* the value of a field line: what follows the marker, blanks around it aside
FieldValue(line) == Trim(Tail(TrimStart(line)))

SsidLines(ls) == {i \in 1..Len(ls) : HasField(ls[i], SSIDMark)}

SecurityLines(ls) == {j \in 1..Len(ls) : HasField(ls[j], SECURITYMark)}

\* the SSID lines that name a network no earlier line named
FirstOccurrences(ls) ==
    {i \in SsidLines(ls) :
        /\ FieldValue(ls[i]) # <<>>
        /\ \A j \in SsidLines(ls) : j < i => FieldValue(ls[j]) # FieldValue(ls[i])}

DistinctSsids(ls) == {FieldValue(ls[i]) : i \in SsidLines(ls)} \ {<<>>}

\* the value of the first SECURITY line after line i, the empty text if none
SecurityAfter(ls, i) ==
    LET later == {j \in SecurityLines(ls) : j > i}
    IN  IF later = {} THEN <<>>
        ELSE FieldValue(ls[CHOOSE j \in later : \A m \in later : j <= m])

ParseReturned == pc = "returned" /\ op = "parseWiFiScanResults"

\* C24: the output of parseWiFiScanResults holds each distinct non-empty
\* SSID of the input exactly once, in the order of first occurrence, with
\* the security value of that first occurrence; its length is the number of
\* distinct SSIDs
C24_DistinctSsidsInOrder ==
    ParseReturned =>
        LET ls  == locals.given
            out == retval.items
            F   == FirstOccurrences(ls)
        IN  /\ Len(out) = Cardinality(DistinctSsids(ls))
            /\ \A i \in F :
                   LET k == Cardinality({j \in F : j <= i})
                   IN  /\ k \in 1..Len(out)
                       /\ out[k].ssid = FieldValue(ls[i])
                       /\ out[k].security = SecurityAfter(ls, i)

\* an SSID came twice, with different security values, and once in the output
C24_Witness ==
    /\ ParseReturned
    /\ \E i, j \in SsidLines(locals.given) :
           /\ i < j
           /\ FieldValue(locals.given[i]) = <<"Home">>
           /\ FieldValue(locals.given[j]) = <<"Home">>
           /\ SecurityAfter(locals.given, i) = <<"WPA2">>
           /\ SecurityAfter(locals.given, j) = <<"WEP">>
    /\ retval.items = <<[ssid |-> <<"Home">>, security |-> <<"WPA2">>]>>

\* C25: parseWiFiScanResults returns the empty sequence for the empty
\* string, for an input without SSID lines and for an input whose SSID
\* lines are all blank
C25_EmptyOutputs ==
    ParseReturned =>
        LET ls == locals.given
        IN  (\/ locals.inputString = <<>>
             \/ SsidLines(ls) = {}
             \/ \A i \in SsidLines(ls) : FieldValue(ls[i]) = <<>>)
            => retval.items = <<>>

\* two blank SSID lines and a SECURITY line gave nothing
C25_Witness ==
    /\ ParseReturned
    /\ Cardinality(SsidLines(locals.given)) = 2
    /\ SecurityLines(locals.given) # {}
    /\ \A i \in SsidLines(locals.given) : FieldValue(locals.given[i]) = <<>>
    /\ retval.items = <<>>

\* C26: the security of a record is the value of the first SECURITY line
\* anywhere after the record's SSID line, adjacent or not and with or
\* without SSID lines in between, and the empty string when no SECURITY
\* line follows
C26_SecurityIsNextSecurityLine ==
    ParseReturned =>
        LET ls  == locals.given
            out == retval.items
        IN  \A k \in 1..Len(out) :
                \E i \in SsidLines(ls) :
                    /\ FieldValue(ls[i]) = out[k].ssid
                    /\ \A m \in SsidLines(ls) : m < i => FieldValue(ls[m]) # out[k].ssid
                    /\ (\A j \in SecurityLines(ls) : j < i) => out[k].security = <<>>
                    /\ \A j \in SecurityLines(ls) :
                           (j > i /\ \A m \in SecurityLines(ls) : m > i => j <= m)
                           => out[k].security = FieldValue(ls[j])

\* two networks share the one SECURITY line that follows both, and a third
\* SSID line has none after it
C26_Witness ==
    /\ ParseReturned
    /\ Len(retval.items) = 2
    /\ retval.items[1].ssid # retval.items[2].ssid
    /\ retval.items[1].security = <<"WEP">>
    /\ retval.items[2].security = <<"WEP">>
    /\ ~HasField(locals.given[2], SECURITYMark)
    /\ ~HasField(locals.given[Len(locals.given)], SECURITYMark)

\* ---------------------------------------------------------------------
\* executeCommand
\* ---------------------------------------------------------------------
\* text is raw without the white space at its two ends
TrimmedOf(text, raw) ==
    /\ text = <<>> \/ (~IsWhiteSpace(text[1]) /\ ~IsWhiteSpace(text[Len(text)]))
    /\ \E a, b \in 0..Len(raw) :
           /\ a + Len(text) + b = Len(raw)
           /\ \A k \in 1..a : IsWhiteSpace(raw[k])
           /\ \A k \in 1..b : IsWhiteSpace(raw[Len(raw) + 1 - k])
           /\ \A k \in 1..Len(text) : text[k] = raw[a + k]

C28_RollbackCompletedAtReturn ==
    [][(pc # "done" /\ pc' = "done" /\ C22_Rollbacks' # {}) =>
          /\ inflight'[data.ssid] = 0
          /\ lastConnectionSSID' = NULL]_vars

\* what holds instead: the rollback delete is still in flight when the call
\* returns
RollbackInFlightAtReturn ==
    [][(pc # "done" /\ pc' = "done" /\ C22_Rollbacks' # {}) =>
          /\ inflight'[data.ssid] = inflight[data.ssid] + 1
          /\ lastConnectionSSID' = lastConnectionSSID
          /\ trace'[Len(trace') - 1] = Ev("issue_delete", data.ssid)
          /\ trace'[Len(trace')] = EmitResult(retval')]_vars

\* C29: in a series of connectToNetwork calls issued one after another, a
\* call that returned a successful outcome for SSID S leaves
\* lastConnectionSSID equal to S from its return until the next call
\* begins; a rollback delete left over from an earlier failed call never
\* clears the slot of a later successful connection
C29_SlotKeepsSuccessfulSsid ==
    (pc = "done" /\ retval.js = "object" /\ IsOne(retval)) => lastConnectionSSID = data.ssid

\* the same holds of every call that began with no unawaited delete in flight
SlotKeptWhenQuiescent ==
    (pc = "done" /\ retval.js = "object" /\ IsOne(retval) /\ atStart.inflight = 0)
        => lastConnectionSSID = data.ssid

\* no call is running and every delete command has returned
Quiesced == pc \in {"idle", "done"} /\ InflightCount = 0

\* C30: after a series of connectToNetwork calls issued one after another
\* has quiesced, at most one Wi-Fi profile the calls created still exists,
\* and lastConnectionSSID names it, so that the next call deletes it
C30_NoOrphanProfiles ==
    Quiesced =>
        /\ Cardinality(profiles.existing) <= 1
        /\ \A s \in profiles.existing : lastConnectionSSID = s

\* what holds instead, of the runs in which every call began with no
\* unawaited delete in flight and whose awaited delete did not fail: the profile that
\* exists is the one the slot names
NoOrphanWithoutStrayDeletes ==
    (Quiesced /\ atStart.inflight = 0 /\ Entries({"delete_failed"}) = {}) =>
        /\ Cardinality(profiles.existing) <= 1
        /\ \A s \in profiles.existing : lastConnectionSSID = s

\* ---------------------------------------------------------------------
\* overlapping calls
\* ---------------------------------------------------------------------
\* two calls that overlapped have both returned success with "1", for
\* different SSIDs, and every unawaited delete has returned
BothSucceeded ==
    /\ pc = "done"
    /\ suspended.pc = "done"
    /\ InflightCount = 0
    /\ retval.js = "object" /\ IsOne(retval)
    /\ suspended.retval.js = "object" /\ IsOne(suspended.retval)
    /\ data.ssid # suspended.data.ssid

\* C31: when two connectToNetwork calls for different SSIDs overlap and both
\* succeed, at quiescence lastConnectionSSID is one of the two SSIDs and the
\* profile of the other SSID has been deleted
C31_OverlapLeavesOneProfile ==
    BothSucceeded =>
        /\ lastConnectionSSID \in {data.ssid, suspended.data.ssid}
        /\ \A s \in {data.ssid, suspended.data.ssid} \ {lastConnectionSSID} :
               s \notin profiles.existing

\* what holds instead: the slot names the SSID of the call that ran line 108
\* last, and that profile exists
OverlapSlotIsOneOfTwo ==
    BothSucceeded =>
        /\ lastConnectionSSID \in {data.ssid, suspended.data.ssid}
        /\ lastConnectionSSID \in profiles.existing

\* ---------------------------------------------------------------------
\* what the renderer is sent
\* ---------------------------------------------------------------------
\* positions of the messages on a channel among those the renderer received
OnChannel(msgs, channel) == {i \in 1..Len(msgs) : msgs[i].arg = channel}

\* C32: for each connect request received on "connect_to_network" the
\* renderer is sent "is_connecting" exactly once and afterwards
\* "connect_to_network_status" exactly once, carrying the request's outcome
C32_OneStatusPerRequest ==
    pc = "handled" =>
        LET msgs == RendererReceived(trace)
        IN  /\ Cardinality(OnChannel(msgs, "is_connecting")) = 1
            /\ Cardinality(OnChannel(msgs, "connect_to_network_status")) = 1
            /\ \A i \in OnChannel(msgs, "is_connecting") :
                   \A j \in OnChannel(msgs, "connect_to_network_status") :
                       i < j /\ msgs[j].payload = retval

\* what holds instead: "is_connecting" once, then the outcome twice, from the
\* listener of line 717 and from line 684
StatusSentTwice ==
    pc = "handled" =>
        LET msgs == RendererReceived(trace)
        IN  msgs = <<Send("is_connecting", NoResult),
                     Send("connect_to_network_status", retval),
                     Send("connect_to_network_status", retval)>>

\* ---------------------------------------------------------------------
\* termination of connectToNetwork
\* ---------------------------------------------------------------------
\* the call has emitted "is_connecting" and not yet "connecting_result"
Connecting ==
    /\ \E i \in 1..Len(trace) : trace[i] = IsConnecting
    /\ \A i \in 1..Len(trace) : ~(trace[i].ev = "emit" /\ trace[i].arg = "connecting_result")

ResultEmitted ==
    \E i \in 1..Len(trace) : trace[i].ev = "emit" /\ trace[i].arg = "connecting_result"

\* the commands a call has issued so far stay within the bounds C33 names;
\* queries and probes count the state queries and the probes of the call
CommandsWithinBounds ==
    /\ Cardinality({i \in Entries({"issue_delete"}) : \A j \in ConnectIssues : i < j}) <= 1
    /\ Cardinality(Entries({"issue_open", "issue_wpa", "issue_hidden", "issue_up"})) <= 2
    /\ queries <= 75
    /\ probes <= 20
    /\ Cardinality({i \in Entries({"issue_delete"}) : \E j \in ConnectIssues : j < i}) <= 1

\* C33: when every command returns, every connectToNetwork call terminates:
\* its "is_connecting" is followed by its "connecting_result", after at most
\* 1 delete, 2 connect / add / up commands, 75 state queries, 20 probes and
\* 1 rollback delete
C33_CallTerminates ==
    /\ []CommandsWithinBounds
    /\ (Connecting ~> ResultEmitted)

\* a call that deleted the previous profile, used all 75 state queries and
\* rolled back has emitted its result
C33_Witness ==
    /\ pc = "done"
    /\ ResultEmitted
    /\ retval.stderr = ExceededMsg
    /\ Cardinality(Entries({"issue_delete"})) = 2

\* a "connect_to_dns" request that has not been answered
DnsPending ==
    /\ op = "connect_to_dns"
    /\ \A i \in 1..Len(trace) : ~(trace[i].ev = "send" /\ trace[i].arg = "dns_registred")

DnsAnswered ==
    \E i \in 1..Len(trace) : trace[i].ev = "send" /\ trace[i].arg = "dns_registred"

\* the handler ended with the answer that carries the success flag of what
\* addDNS returned, and wrote the setting exactly when the flag is set
AnsweredWithFlag ==
    (op = "connect_to_dns" /\ pc = "handled") =>
        /\ trace[Len(trace)] = Send("dns_registred", JsBool(retval.success))
        /\ (Entries({"store_set"}) # {}) <=> retval.success

\* C34: every "connect_to_dns" request is eventually answered with
\* "dns_registred" carrying the success flag of addDNS, whatever addDNS did
\* (a failed UUID lookup included), and the "dns" setting is written only
\* when addDNS succeeded
C34_DnsAnswered ==
    /\ []AnsweredWithFlag
    /\ (DnsPending ~> DnsAnswered)

\* what holds instead: the handler answers unless the UUID lookup failed,
\* and then it ends with an exception
DnsAnsweredUnlessLookupFailed ==
    /\ []AnsweredWithFlag
    /\ (DnsPending ~> (DnsAnswered \/ (pc = "thrown" /\ Entries({"uuid_failed"}) # {})))

\* C35: addDNS issues the commands that change the DNS only when the lookup
\* found a UUID: when the lookup command succeeds and prints nothing, no
\* "nmcli con mod" and no down/up command is issued
C35_NoCommandWithoutUuid ==
    (op \in {"addDNS", "connect_to_dns"} /\ locals.connectionName = "") =>
        Entries({"issue_dns", "issue_autodns", "issue_cycle"}) = {}

\* what holds instead: the commands are issued, with an empty profile name
EmptyUuidStillModifies ==
    (op \in {"addDNS", "connect_to_dns"} /\ locals.connectionName = "") =>
        \E i \in 1..Len(trace) : trace[i] = Ev("issue_dns", "")

RECURSIVE SumTo(_, _)
SumTo(f, n) == IF n = 0 THEN 0 ELSE f[n] + SumTo(f, n - 1)

\* "ethernet_status" notifications emitted by all timers
EmittedTotal == SumTo(emitted, MaxStarts)

\* the result of a check that found the link connected and the server
\* reachable, with the connection type
IsEthernetSuccess(v) ==
    /\ v.js = "object"
    /\ v.success
    /\ v.stdout = "1"
    /\ "connectionType" \in DOMAIN v

\* C36: when the ethernet watch finds the link connected and the server
\* reachable, the renderer receives "connect_to_network_status" with that
\* successful result (success = true, stdout "1") and its connection type
C36_WatcherReportsResult ==
    /\ Len(received) = EmittedTotal
    /\ \A i \in 1..Len(received) :
          /\ received[i].arg = "connect_to_network_status"
          /\ IsEthernetSuccess(received[i].payload)

\* what holds instead: the renderer gets one message for each notification,
\* and its payload is undefined
WatcherReportsUndefined ==
    /\ Len(received) = EmittedTotal
    /\ \A i \in 1..Len(received) :
          /\ received[i].arg = "connect_to_network_status"
          /\ received[i].payload = JsUndefined

\* C37: once stopEthernetInterval has run and the watch has not been started
\* again, no "ethernet_status" is emitted, not even by a callback that was
\* entered before the stop and is still awaiting its check
C37_NoNotificationAfterStop ==
    [][ethernetInterval = NullHandle => emitted' = emitted]_vars

\* what holds instead: after a stop only callbacks entered before it notify,
\* one notification for each at most
OnlyPendingCallbacksNotifyAfterStop ==
    [][(ethernetInterval = NullHandle /\ emitted' # emitted)
          => BagCardinality(ticks') < BagCardinality(ticks)]_vars

\* the list notifications a scan handler has sent
ListsSent ==
    {i \in 1..Len(trace) :
        \/ trace[i].ev = "send" /\ trace[i].arg = "list_of_networks"
        \/ trace[i].ev = "ble_send" /\ trace[i].arg = "SEND_AVAILABLE_NETWORK_LIST"}

ScanHandlerRuns == op \in {"search_after_networks", "RECEIVE_SCAN_AVAILABLE_NETWORKS"}

\* C38: a list of networks is sent only when the scan command succeeded:
\* while the scan runs and when it failed no list has been sent, to the UI
\* or over BLE; when it succeeded one list has been sent, to the one who
\* asked, and it is parseWiFiScanResults of the stdout of the scan
C38_ListOnlyOnSuccess ==
    ScanHandlerRuns =>
        /\ (pc = "L688" \/ ~locals.result.success) => ListsSent = {}
        /\ (pc = "handled" /\ locals.result.success) =>
              /\ Cardinality(ListsSent) = 1
              /\ \A i \in ListsSent :
                    /\ trace[i].payload = JsArray(ParseWiFiScanResults(locals.result.stdout))
                    /\ trace[i].ev = (IF op = "search_after_networks" THEN "send" ELSE "ble_send")

\* a BLE scan that listed a network was answered with the list
C38_Witness ==
    /\ op = "RECEIVE_SCAN_AVAILABLE_NETWORKS"
    /\ pc = "handled"
    /\ locals.result.success
    /\ \E i \in ListsSent : Len(trace[i].payload.items) = 2

\* a scan failed and the handler ended
ScanFailedHandled ==
    /\ ScanHandlerRuns
    /\ pc = "handled"
    /\ ~locals.result.success

\* line 108 runs in this step: connectToNetwork stores the SSID it was given
ConnectWrites ==
    /\ op' = "connectToNetwork"
    /\ pc \in {"idle", "done", "handled", "L105"}
    /\ lastConnectionSSID' = data'.ssid

\* line 313 runs in this step: a delete command of deleteConnectionBySSID
\* has returned, to a direct call, to resetAllConnections, to line 105 or to
\* nobody (the rollbacks of lines 149 and 155)
DeleteWrites ==
    /\ \/ pc \in {"L312", "L333", "L105"}
       \/ \E s \in SSIDs : inflight'[s] < inflight[s]
    /\ pc # "L105" => lastConnectionSSID' = NULL

\* a step of one of the functions C39 names: the scan, the two polling
\* loops, checkNetworkConnection and addDNS, or a step of the watch
NonWriterStep ==
    \/ /\ op' \in {"search_after_networks", "checkNetworkConnection", "addDNS"}
       /\ <<pc, op>> # <<pc', op'>>
    \/ /\ pc \in {"L244", "sleep", "L293", "L299"}
       /\ <<pc, attempts, serverAttempts, queries, probes>>
             # <<pc', attempts', serverAttempts', queries', probes'>>
    \/ watchVars' # watchVars

\* C39: lastConnectionSSID is written only by connectToNetwork (line 108) and
\* by deleteConnectionBySSID (line 313), called directly, by
\* resetAllConnections or as a rollback; the scan, waitForActiveConnection,
\* attemptServerConnection, checkNetworkConnection, the ethernet watch and
\* addDNS leave it as it is
C39_OnlyTwoWriters ==
    [][/\ lastConnectionSSID' # lastConnectionSSID => (ConnectWrites \/ DeleteWrites)
       /\ NonWriterStep => lastConnectionSSID' = lastConnectionSSID]_vars

\* addDNS has cycled the active connection while the slot held an SSID
C39_Witness ==
    /\ op = "addDNS"
    /\ pc = "returned"
    /\ Entries({"cycle_ok"}) # {}
    /\ lastConnectionSSID \in SSIDs

\* C40: at most one status timer of the BLE polling is active at any time,
\* and once "device-disconnected" or RECEIVE_FINISH_SETUP has stopped the
\* polling no status timer fires any more, however often "device-accepted"
\* was received before
C40_AtMostOneStatusTimer ==
    /\ Cardinality(ActiveStatusTimers) <= 1
    /\ networkStatusInterval = NullHandle => ActiveStatusTimers = {}

\* what holds instead: the timer started last is the only one a stop
\* clears, and every timer started before it and not stopped goes on firing
OnlyLastStatusTimerStopped ==
    /\ networkStatusInterval.js = "object" =>
          /\ networkStatusInterval.id = Len(statusTimers)
          /\ statusTimers[networkStatusInterval.id] = "active"
    /\ networkStatusInterval = NullHandle =>
          (statusTimers # <<>> /\ statusTimers[Len(statusTimers)] = "cleared")
    /\ networkStatusInterval = UndefHandle => statusTimers = <<>>

====
